---- MODULE Spec2Model ----
(***************************************************************************)
(* Model of the building-code viewer: the BuildingCodeViewer component     *)
(* (src/src/components/BuildingCodeViewer.tsx, first component of the      *)
(* file) and the request layer buildingCodeService                         *)
(* (src/src/services/buildingCodeService.ts).                              *)
(*                                                                         *)
(* Strings are sequences of one-character strings, ids are positive        *)
(* integers, JS null/undefined ids are Null.  Time is counted in           *)
(* milliseconds and advances in steps of TickMs.                           *)
(***************************************************************************)
EXTENDS Integers, Sequences, FiniteSets, TLC

\* JS null / undefined where a node id is expected (ids are positive).
Null == 0

\* Result standing for "the while (current) loop never exits".
Diverges == 0 - 1

\* ------------------------------------------------------------------------
\* Generic helpers
\* ------------------------------------------------------------------------

Min(a, b) == IF a < b THEN a ELSE b

Max(a, b) == IF a > b THEN a ELSE b

Range(s) == {s[i] : i \in 1..Len(s)}

\* All sequences over S of length at most n.
SeqsUpTo(S, n) == UNION {[1..k -> S] : k \in 0..n}

\* s without its i-th element.
RemoveAt(s, i) == SubSeq(s, 1, i - 1) \o SubSeq(s, i + 1, Len(s))

\* ------------------------------------------------------------------------
\* HierarchyNode trees
\* ------------------------------------------------------------------------

\* A HierarchyNode with the fields the viewer's logic reads.  An absent
\* title, content_text or reference_code is the empty string: the code reads
\* them only through ?.includes of a non-empty needle, which is false for
\* both.
NodeT(id, parent, type, title, code, text, children) ==
    [id |-> id, parent_id |-> parent, content_type |-> type, title |-> title,
     reference_code |-> code, content_text |-> text, children |-> children]

Node(id, parent, type, children) == NodeT(id, parent, type, <<>>, <<>>, <<>>, children)

\* The JS value null where a HierarchyNode is expected.
NoNode == Node(Null, Null, "none", <<>>)

\* collectAllIds of loadContentForItem: every id of a forest.
RECURSIVE collectAllIds(_)
collectAllIds(nodes) ==
    IF nodes = <<>> THEN {}
    ELSE {Head(nodes).id} \cup collectAllIds(Head(nodes).children)
                          \cup collectAllIds(Tail(nodes))

\* Every node of a forest, in pre-order.
RECURSIVE NodesOf(_)
NodesOf(nodes) ==
    IF nodes = <<>> THEN <<>>
    ELSE <<Head(nodes)>> \o NodesOf(Head(nodes).children) \o NodesOf(Tail(nodes))

\* findParentInNavigation: first node, depth first, whose id === parentId.
RECURSIVE findParentInNavigation(_, _)
findParentInNavigation(nodes, parentId) ==
    IF nodes = <<>> THEN NoNode
    ELSE LET node == Head(nodes)
         IN  IF node.id = parentId THEN node
             ELSE LET found == findParentInNavigation(node.children, parentId)
                  IN  IF found.id # Null THEN found
                      ELSE findParentInNavigation(Tail(nodes), parentId)

\* The while (current) loop of findParentContentId.  fuel counts the
\* iterations left before the walk must have revisited a node, which in the
\* code means the loop runs for ever.
RECURSIVE WalkUp(_, _, _)
WalkUp(nav, current, fuel) ==
    IF current.id = Null THEN Null
    ELSE IF current.content_type \in {"part", "section"} THEN current.id
    ELSE IF fuel = 0 THEN Diverges
    ELSE WalkUp(nav, findParentInNavigation(nav, current.parent_id), fuel - 1)

\* A plausible slip of findParentContentId: only a part ends the walk.
findParentContentId_PartOnly(nav, item) ==
    IF item.content_type \in {"division", "part", "section"} THEN item.id
    ELSE LET anc == SelectSeq(NodesOf(nav),
                        LAMBDA p : p.content_type = "part"
                                   /\ item.id \in collectAllIds(p.children))
         IN  IF anc = <<>> THEN item.id ELSE anc[Len(anc)].id

findParentContentId(nav, item) ==
    IF item.content_type \in {"division", "part", "section"} THEN item.id
    ELSE LET r == WalkUp(nav, item, Len(NodesOf(nav)) + 1)
         IN  IF r = Null THEN item.id ELSE r

\* ------------------------------------------------------------------------
\* Strings
\* ------------------------------------------------------------------------

\* String.prototype.toLowerCase on one UTF-16 code unit.  "I" stands for
\* U+0130 (capital I with dot above), whose lower case is the two code units
\* "i" U+0307, written "i" "'" here; every other letter maps to one unit.
LowerOfChar(c) ==
    CASE c = "A" -> <<"a">>
      [] c = "B" -> <<"b">>
      [] c = "U" -> <<"u">>
      [] c = "I" -> <<"i", "'">>
      [] OTHER   -> <<c>>

RECURSIVE toLowerCase(_)
toLowerCase(s) ==
    IF s = <<>> THEN <<>> ELSE LowerOfChar(Head(s)) \o toLowerCase(Tail(s))

IsWhiteSpace(c) == c = " "

\* String.prototype.trim.
RECURSIVE TrimStart(_)
TrimStart(s) ==
    IF s # <<>> /\ IsWhiteSpace(Head(s)) THEN TrimStart(Tail(s)) ELSE s

RECURSIVE TrimEnd(_)
TrimEnd(s) ==
    IF s # <<>> /\ IsWhiteSpace(s[Len(s)])
    THEN TrimEnd(SubSeq(s, 1, Len(s) - 1)) ELSE s

\* A slip of trim: white space is kept.
trim_KeepsWhiteSpace(s) == s

trim(s) == TrimEnd(TrimStart(s))

\* String.prototype.substring(a, b), 0-based, end exclusive: both indexes are
\* clamped to [0, length] and swapped when a > b.
substring(s, a, b) ==
    LET ca == Max(0, Min(a, Len(s)))
        cb == Max(0, Min(b, Len(s)))
    IN  SubSeq(s, Min(ca, cb) + 1, Max(ca, cb))

\* needle occurs in hay at 0-based index i.
OccursAt(hay, needle, i) ==
    /\ i >= 0
    /\ i + Len(needle) <= Len(hay)
    /\ SubSeq(hay, i + 1, i + Len(needle)) = needle

\* String.prototype.indexOf(needle, from), 0-based; -1 when absent.  An empty
\* needle is found at min(from, length).
indexOf(hay, needle, from) ==
    LET start == Max(0, Min(from, Len(hay)))
        hits  == {i \in start..Len(hay) : OccursAt(hay, needle, i)}
    IN  IF hits = {} THEN 0 - 1
        ELSE CHOOSE i \in hits : \A j \in hits : i <= j

\* String.prototype.includes.
includes(hay, needle) == indexOf(hay, needle, 0) >= 0

\* ------------------------------------------------------------------------
\* highlightReferences
\* ------------------------------------------------------------------------

\* A Reference with the fields highlightReferences reads.
Ref(text, position) == [reference_text |-> text, reference_position |-> position]

\* Array.prototype.sort with (a, b) => a.reference_position -
\* b.reference_position: stable, ascending.
RECURSIVE InsertByPosition(_, _)
InsertByPosition(sorted, r) ==
    IF sorted = <<>> THEN <<r>>
    ELSE IF Head(sorted).reference_position <= r.reference_position
         THEN <<Head(sorted)>> \o InsertByPosition(Tail(sorted), r)
         ELSE <<r>> \o sorted

RECURSIVE SortByPosition(_)
SortByPosition(refs) ==
    IF refs = <<>> THEN <<>>
    ELSE InsertByPosition(SortByPosition(SubSeq(refs, 1, Len(refs) - 1)),
                          refs[Len(refs)])

\* One emitted <span>: kind "text" (plain) or "ref" (clickable reference).
Segment(kind, str, ref) == [kind |-> kind, str |-> str, ref |-> ref]

NoRef == Ref(<<>>, 0 - 1)

\* A slip of the loop body: the plain text before a match is not emitted.
HighlightStep_DropsGap(text, textLower, st, ref) ==
    LET refText  == ref.reference_text
        refIndex == indexOf(textLower, toLowerCase(refText), st.lastIndex)
    IN  IF refIndex # 0 - 1
        THEN [lastIndex |-> refIndex + Len(refText),
              elements  |-> Append(st.elements,
                                Segment("ref",
                                        substring(text, refIndex, refIndex + Len(refText)),
                                        ref))]
        ELSE st

\* The body of sortedReferences.forEach: st is (lastIndex, elements).
HighlightStep(text, textLower, st, ref) ==
    LET refText  == ref.reference_text
        refLower == toLowerCase(refText)
        refIndex == indexOf(textLower, refLower, st.lastIndex)
        before   == IF refIndex > st.lastIndex
                    THEN <<Segment("text", substring(text, st.lastIndex, refIndex), NoRef)>>
                    ELSE <<>>
    IN  IF refIndex # 0 - 1
        THEN [lastIndex |-> refIndex + Len(refText),
              elements  |-> st.elements \o before \o
                            <<Segment("ref",
                                      substring(text, refIndex, refIndex + Len(refText)),
                                      ref)>>]
        ELSE st

RECURSIVE HighlightLoop(_, _, _, _)
HighlightLoop(text, textLower, st, refs) ==
    IF refs = <<>> THEN st
    ELSE HighlightLoop(text, textLower,
                       HighlightStep(text, textLower, st, Head(refs)), Tail(refs))

\* highlightReferences(text, references): the emitted segments, in order.
highlightReferences(text, references) ==
    IF text = <<>> \/ references = <<>>
    THEN <<Segment("text", text, NoRef)>>
    ELSE LET st == HighlightLoop(text, toLowerCase(text),
                                 [lastIndex |-> 0, elements |-> <<>>],
                                 SortByPosition(references))
         IN  IF st.lastIndex < Len(text)
             THEN Append(st.elements,
                         Segment("text", substring(text, st.lastIndex, Len(text)), NoRef))
             ELSE st.elements

\* The characters of all segments, in emission order.
RECURSIVE ConcatSegments(_)
ConcatSegments(segs) ==
    IF segs = <<>> THEN <<>> ELSE Head(segs).str \o ConcatSegments(Tail(segs))

\* ------------------------------------------------------------------------
\* The backend (external): documents, content and search responses
\* ------------------------------------------------------------------------

\* The documentId prop when it is absent.
NoDocument == <<>>

D1 == <<"d", "1">>

D2 == <<"d", "2">>

DocumentIds == {D1, D2}

\* GET /pdf-documents/{documentId}/navigation: the navigation forest of each
\* document.  D1 has a section holding a clause, and a root article (a node
\* with no part or section above it); D2 has no navigation entries.
DocTree(doc) ==
    IF doc = D1
    THEN << NodeT(1, Null, "section", <<"B", "u">>, <<>>, <<>>,
              << NodeT(2, 1, "clause", <<>>, <<"b">>, <<"u", "b">>, <<>>) >>),
            NodeT(3, Null, "article", <<"a">>, <<>>, <<>>, <<>>) >>
    ELSE <<>>

\* GET /pdf-documents/{documentId}/content/{contentId}: the subtree the
\* document holds under contentId; NoNode (a 404) when it holds no such node.
BackendContent(doc, contentId) == findParentInNavigation(DocTree(doc), contentId)

\* ------------------------------------------------------------------------
\* State
\* ------------------------------------------------------------------------

VARIABLES
    \* props and React state of BuildingCodeViewer
    documentId, navigationData, currentContent, loading, contentLoading, error,
    selectedItem, navigationExpandedItems, contentExpandedItems,
    searchTerm, searchResults, referencePopup,
    \* searchTimeoutRef.current: the handle of the last debounce timer set
    searchTimeoutRef,
    \* position of the mount effect's fetchData: "start", "nav", "content", "done"
    mountPc,
    \* pending setTimeout callbacks of the debounce
    timers,
    \* pending setTimeout callbacks that scroll, and the id of the element the
    \* content container was last scrolled to; both are followed only where
    \* scrollFollowed is set, which no step changes
    scrollTimers, scrollTop, scrollFollowed,
    \* the network: the navigation fetch, the content fetches in flight (in the
    \* order they were issued), the module-level requestCache and the search
    \* fetches in flight (in the order they were issued)
    navRequest, contentRequests, requestCache, searchRequests,
    \* history: the last step taken and its parameters
    lastEvent,
    \* history of the debounce: milliseconds since the last handleSearch call
    \* (elapsed, capped), backend search calls issued since then (calls), and
    \* the term of that call (lastTerm)
    searchHist,
    \* inputs and result of findParentContentId, for the checks of the function
    fpNav, fpItem, fpResult, fpPc,
    \* inputs and result of highlightReferences, for the checks of the function
    hlText, hlRefs, hlOut, hlPc,
    \* input and result of buildHierarchy, for the checks of the function
    flatData, hierarchy, bhPc

contentVars == <<currentContent, selectedItem, contentExpandedItems>>

mountVars == <<loading, error, mountPc, navRequest>>

loadVars == <<contentLoading, contentRequests, requestCache>>

searchVars == <<searchTerm, searchResults, searchTimeoutRef, timers, searchRequests,
                searchHist>>

fpVars == <<fpNav, fpItem, fpResult, fpPc>>

hlVars == <<hlText, hlRefs, hlOut, hlPc>>

scrollVars == <<scrollTimers, scrollTop, scrollFollowed>>

bhVars == <<flatData, hierarchy, bhPc>>

vars == <<documentId, navigationData, navigationExpandedItems, contentVars, mountVars,
          loadVars, searchVars, lastEvent, referencePopup, fpVars, hlVars, scrollVars,
          bhVars>>

\* error === null
NoError == "null"

LoadError == "Failed to load building code data. Please try again."

\* The id of the root of the content pane (Null when it is empty).
ContentRoot == IF currentContent = <<>> THEN Null ELSE currentContent[1].id

\* A Reference with the fields the handlers read: its id and
\* target_content_id (Null when unresolved).
RefTo(target) == [id |-> target + 1, target_content_id |-> target]

\* The JS value null where a Reference is expected.
NoReference == [id |-> Null, target_content_id |-> Null]

\* A step that no check needs to tell from another.
OtherEvent ==
    [type |-> "other", id |-> Null, target |-> Null, item |-> NoNode,
     waiters |-> <<>>, prevRoot |-> Null, overtakenBy |-> Null,
     afterEarlier |-> Null, term |-> <<>>, results |-> <<>>, scroll |-> Null,
     reference |-> NoReference, overtaken |-> FALSE, replaced |-> <<>>]

\* handleNavigationClick(item) ran: id is item.id, target the content id it
\* asked loadContentForItem for (Null when the item was already loaded),
\* scroll the id it passed to scrollToElement before returning (Null when it
\* left the scroll to the completion of the load).
ClickEvent(id, target, scroll) ==
    [OtherEvent EXCEPT !.type = "click", !.id = id, !.target = target,
                       !.scroll = scroll]

\* The fetch req settled for its callers: "loadOk" with the item received, or
\* "loadFail"; prevRoot is the root of the content pane before the step.
LoadEvent(type, req, item) ==
    [OtherEvent EXCEPT !.type = type, !.id = req.key[2], !.item = item,
                       !.waiters = req.waiters, !.prevRoot = ContentRoot,
                       !.overtakenBy = req.overtakenBy,
                       !.afterEarlier = req.afterEarlier]

\* Most loadContentForItem calls that may be awaiting a fetch together.
MaxLoads == 2

\* ------------------------------------------------------------------------
\* Derived values of a render
\* ------------------------------------------------------------------------

\* A slip of isSearchMode: the term alone decides.
isSearchMode_TermOnly == Len(trim(searchTerm)) > 0

\* isSearchMode (useMemo over searchTerm and searchResults).
isSearchMode == Len(trim(searchTerm)) > 0 /\ Len(searchResults) > 0

\* The render: the search-results column is shown.
SearchColumnShown == isSearchMode

\* The render (desktop layout): the navigation sidebar is shown.
NavigationShown == ~isSearchMode

\* checkInContent restricted to the root list: a slip that forgets to descend.
isContentAlreadyLoaded_RootOnly(contentId) ==
    \E i \in 1..Len(currentContent) : currentContent[i].id = contentId

RECURSIVE checkInContent(_, _)
checkInContent(nodes, contentId) ==
    IF nodes = <<>> THEN FALSE
    ELSE \/ Head(nodes).id = contentId
         \/ checkInContent(Head(nodes).children, contentId)
         \/ checkInContent(Tail(nodes), contentId)

isContentAlreadyLoaded(contentId) == checkInContent(currentContent, contentId)

\* The viewer renders its interactive layout (neither the loading screen nor
\* the error screen).
Interactive == ~loading /\ error = NoError

\* The delay between the completion of a load and the scroll, in milliseconds.
ScrollDelayMs == 150

\* contentRefs.current[elementId] holds an element: the content pane renders
\* the item.
ElementMounted(elementId) ==
    Interactive /\ elementId \in collectAllIds(currentContent)

\* scrollToElement(elementId): the element the container is scrolled to once
\* the animation frame has run; no element, no scroll.
scrollToElement(elementId) ==
    IF scrollFollowed /\ ElementMounted(elementId) THEN elementId ELSE scrollTop

\* A slip of the .then callbacks: the scroll is due as soon as the load settles.
ScrollTimersOf_NoDelay(ws) ==
    IF ~scrollFollowed THEN {} ELSE
    {[id |-> ws[k].scrollTo, due |-> 0, waited |-> 0] :
        k \in {j \in 1..Len(ws) : ws[j].scrollTo # Null}}

\* The .then callbacks of the callers ws of a settled load:
\* setTimeout(() => scrollToElement(id), 150).  waited is history: the time
\* since the timer was set.
ScrollTimersOf(ws) ==
    IF ~scrollFollowed THEN {} ELSE
    {[id |-> ws[k].scrollTo, due |-> ScrollDelayMs, waited |-> 0] :
        k \in {j \in 1..Len(ws) : ws[j].scrollTo # Null}}

\* The .then callback of caller w of a load that has just been started: it
\* runs at once when the cached promise it was handed is already rejected
\* (loadContentForItem then leaves contentLoading false).
ScrollTimersAtStart(w) ==
    IF contentLoading' THEN scrollTimers ELSE scrollTimers \cup ScrollTimersOf(<<w>>)

\* ------------------------------------------------------------------------
\* buildingCodeService.getContentItem and loadContentForItem
\* ------------------------------------------------------------------------

\* One caller awaiting a content fetch: the loadContentForItem call for
\* contentId made by the mount effect ("mount") or by a click ("click"), and
\* the id its .then callback scrolls to.
Waiter(contentId, origin, scrollTo) ==
    [contentId |-> contentId, origin |-> origin, scrollTo |-> scrollTo]

CacheKey(doc, contentId) == <<doc, contentId>>

\* The requests whose promise is still cached under key and pending.
PendingFor(reqs, key) ==
    {i \in 1..Len(reqs) : reqs[i].key = key /\ reqs[i].stage = "sent"}

\* getContentItem(doc, contentId) called by waiter w: the requests and cache
\* afterwards, and whether the promise returned is already rejected.
getContentItem(reqs, cache, doc, contentId, w) ==
    LET key  == CacheKey(doc, contentId)
        pend == PendingFor(reqs, key)
    IN  IF key \in cache
        THEN IF pend # {}
             THEN [reqs |-> [reqs EXCEPT ![CHOOSE i \in pend : TRUE].waiters = Append(@, w)],
                   cache |-> cache, rejected |-> FALSE]
             ELSE [reqs |-> reqs, cache |-> cache, rejected |-> TRUE]
        ELSE [reqs |-> Append(reqs, [key |-> key, stage |-> "sent", waiters |-> <<w>>,
                                     overtakenBy |-> Null, afterEarlier |-> Null]),
              cache |-> cache \cup {key}, rejected |-> FALSE]

RECURSIVE WaiterCount(_)
WaiterCount(reqs) ==
    IF reqs = <<>> THEN 0 ELSE Len(Head(reqs).waiters) + WaiterCount(Tail(reqs))

\* loadContentForItem(contentId) up to its await, called with a non-empty
\* documentId by waiter w.  When the cached promise is already rejected the
\* catch and finally blocks run at once.
StartLoad(contentId, w) ==
    LET r == getContentItem(contentRequests, requestCache, documentId, contentId, w)
    IN  /\ contentRequests' = r.reqs
        /\ requestCache' = r.cache
        /\ contentLoading' = ~r.rejected

\* ------------------------------------------------------------------------
\* The mount effect: fetchData
\* ------------------------------------------------------------------------

\* fetchData up to its first await.  Without a documentId it returns before
\* the try block.
FetchDataStart ==
    /\ mountPc = "start"
    /\ IF documentId = NoDocument
       THEN /\ mountPc' = "done"
            /\ UNCHANGED <<loading, error, navRequest>>
       ELSE /\ loading' = TRUE
            /\ error' = NoError
            /\ navRequest' = documentId
            /\ mountPc' = "nav"
    /\ lastEvent' = OtherEvent
    /\ UNCHANGED <<documentId, navigationData, navigationExpandedItems, contentVars,
                   loadVars, searchVars, fpVars, hlVars, bhVars,
                   referencePopup, scrollVars>>

\* getDocumentNavigation resolves: the rest of the try block up to the await
\* of loadContentForItem, or to the finally block when there is nothing to
\* load (or the load's promise is already rejected).
NavigationLoaded ==
    /\ mountPc = "nav"
    /\ LET nav == DocTree(navRequest)
       IN  /\ navigationData' = nav
           /\ navigationExpandedItems' = {nav[i].id : i \in 1..Len(nav)}
           /\ IF Len(nav) > 0
              THEN /\ StartLoad(nav[1].id, Waiter(nav[1].id, "mount", Null))
                   /\ IF contentLoading'
                      THEN mountPc' = "content" /\ UNCHANGED loading
                      ELSE mountPc' = "done" /\ loading' = FALSE
              ELSE /\ mountPc' = "done"
                   /\ loading' = FALSE
                   /\ UNCHANGED loadVars
    /\ navRequest' = NoDocument
    /\ lastEvent' = OtherEvent
    /\ UNCHANGED <<documentId, error, contentVars, searchVars, fpVars, hlVars, bhVars,
                   referencePopup, scrollVars>>

\* getDocumentNavigation rejects (network failure or a non-OK status) while
\* the component is mounted: the catch and finally blocks.
NavigationFailed ==
    /\ mountPc = "nav"
    /\ error' = LoadError
    /\ loading' = FALSE
    /\ mountPc' = "done"
    /\ navRequest' = NoDocument
    /\ lastEvent' = [OtherEvent EXCEPT !.type = "navFail"]
    /\ UNCHANGED <<documentId, navigationData, navigationExpandedItems, contentVars,
                   loadVars, searchVars, fpVars, hlVars, bhVars,
                   referencePopup, scrollVars>>

\* The cleanup of the mount effect as the content fetches see it: isMounted
\* of the ended run is false, so the fetchData that awaits a content fetch
\* will skip its finally block ("unmounted"); getContentItem was given no
\* signal, so the fetch itself goes on.
EndMount(reqs) ==
    [i \in 1..Len(reqs) |->
        [reqs[i] EXCEPT !.waiters =
            [k \in 1..Len(reqs[i].waiters) |->
                IF reqs[i].waiters[k].origin = "mount"
                THEN [reqs[i].waiters[k] EXCEPT !.origin = "unmounted"]
                ELSE reqs[i].waiters[k]]]]

\* The documentId prop changes after the first run of the mount effect: the
\* cleanup of the effect (isMounted = false, abort of the navigation fetch,
\* clearTimeout of the debounce timer) and then its next run, fetchData up to
\* its first await.  React keeps the component's state.
DocumentChange ==
    /\ mountPc # "start"
    /\ WaiterCount(contentRequests) < MaxLoads
    /\ \E doc \in (DocumentIds \cup {NoDocument}) \ {documentId} :
          /\ documentId' = doc
          /\ IF doc = NoDocument
             THEN /\ mountPc' = "done"
                  /\ navRequest' = NoDocument
                  /\ UNCHANGED <<loading, error>>
             ELSE /\ loading' = TRUE
                  /\ error' = NoError
                  /\ navRequest' = doc
                  /\ mountPc' = "nav"
    /\ contentRequests' = EndMount(contentRequests)
    /\ timers' = {t \in timers : t.id # searchTimeoutRef}
    /\ lastEvent' = [OtherEvent EXCEPT !.type = "documentChange"]
    /\ UNCHANGED <<navigationData, navigationExpandedItems, contentVars, contentLoading,
                   requestCache, searchTerm, searchResults, searchTimeoutRef,
                   searchRequests, searchHist, fpVars, hlVars, bhVars, referencePopup, scrollVars>>

\* ------------------------------------------------------------------------
\* Content fetches settling
\* ------------------------------------------------------------------------

\* fetchData after its await of loadContentForItem: the finally block.
AfterWaiters(ws) ==
    IF \E k \in 1..Len(ws) : ws[k].origin = "mount"
    THEN loading' = FALSE /\ mountPc' = "done"
    ELSE UNCHANGED <<loading, mountPc>>

\* A slip of the success path: the fetched item is appended to the content.
LoadSucceeded_Merges(ws, contentItem) ==
    /\ currentContent' = Append(currentContent, contentItem)
    /\ selectedItem' = ws[Len(ws)].contentId
    /\ contentExpandedItems' = collectAllIds(<<contentItem>>)
    /\ contentLoading' = FALSE

\* A slip of the success path: the ids of the fetched subtree are added to the
\* expand set, which keeps the ids of the subtree shown before.
LoadSucceeded_KeepsExpanded(ws, contentItem) ==
    /\ currentContent' = <<contentItem>>
    /\ selectedItem' = ws[Len(ws)].contentId
    /\ contentExpandedItems' = contentExpandedItems \cup collectAllIds(<<contentItem>>)
    /\ contentLoading' = FALSE

\* loadContentForItem after its await, for the callers ws of one fetch that
\* resolved with contentItem: the rest of the try block and the finally block.
LoadSucceeded(ws, contentItem) ==
    /\ currentContent' = <<contentItem>>
    /\ selectedItem' = ws[Len(ws)].contentId
    /\ contentExpandedItems' = collectAllIds(<<contentItem>>)
    /\ contentLoading' = FALSE

\* A slip of the failure path: the content pane is emptied.
LoadFailed_ClearsContent(ws) ==
    /\ contentLoading' = FALSE
    /\ currentContent' = <<>>
    /\ UNCHANGED <<selectedItem, contentExpandedItems>>

\* loadContentForItem after its await, for the callers ws of one fetch that
\* rejected: the catch block and the finally block.
LoadFailed(ws) ==
    /\ contentLoading' = FALSE
    /\ UNCHANGED <<currentContent, selectedItem, contentExpandedItems>>

\* History kept on the requests still in flight when request i resolves: an
\* earlier-issued request for another id learns that a later-issued one
\* completed first (overtakenBy), a later-issued one that an earlier one has
\* completed (afterEarlier).
MarkOrder(reqs, i) ==
    [j \in 1..Len(reqs) |->
        IF reqs[j].key[2] = reqs[i].key[2] THEN reqs[j]
        ELSE IF j < i THEN [reqs[j] EXCEPT !.overtakenBy = reqs[i].key[2]]
        ELSE [reqs[j] EXCEPT !.afterEarlier = reqs[i].key[2]]]

\* fetch resolves with an OK status: the .then callback of getContentItem
\* deletes the cache key and starts reading the body.
ContentHeadersOk(i) ==
    /\ contentRequests[i].stage = "sent"
    /\ BackendContent(contentRequests[i].key[1], contentRequests[i].key[2]).id # Null
    /\ contentRequests' = [contentRequests EXCEPT ![i].stage = "body"]
    /\ requestCache' = requestCache \ {contentRequests[i].key}
    /\ lastEvent' = OtherEvent
    /\ UNCHANGED <<documentId, navigationData, navigationExpandedItems, contentVars,
                   mountVars, contentLoading, searchVars, fpVars, hlVars, bhVars,
                   referencePopup, scrollVars>>

\* response.json() resolves: every caller of the fetch continues.
ContentBodyOk(i) ==
    /\ contentRequests[i].stage = "body"
    /\ LET req  == contentRequests[i]
           item == BackendContent(req.key[1], req.key[2])
       IN  /\ LoadSucceeded(req.waiters, item)
           /\ AfterWaiters(req.waiters)
           /\ lastEvent' = LoadEvent("loadOk", req, item)
    /\ contentRequests' = RemoveAt(MarkOrder(contentRequests, i), i)
    /\ UNCHANGED <<documentId, navigationData, navigationExpandedItems, error,
                   navRequest, requestCache, searchVars, fpVars, hlVars, bhVars,
                   referencePopup>>
    /\ scrollTimers' = scrollTimers \cup ScrollTimersOf(contentRequests[i].waiters)
    /\ UNCHANGED <<scrollTop, scrollFollowed>>

\* fetch resolves with a non-OK status: the .then callback deletes the cache
\* key and throws.
ContentHttpError(i) ==
    /\ contentRequests[i].stage = "sent"
    /\ LoadFailed(contentRequests[i].waiters)
    /\ AfterWaiters(contentRequests[i].waiters)
    /\ requestCache' = requestCache \ {contentRequests[i].key}
    /\ contentRequests' = RemoveAt(contentRequests, i)
    /\ lastEvent' = LoadEvent("loadFail", contentRequests[i], NoNode)
    /\ UNCHANGED <<documentId, navigationData, navigationExpandedItems, error,
                   navRequest, searchVars, fpVars, hlVars, bhVars,
                   referencePopup>>
    /\ scrollTimers' = scrollTimers \cup ScrollTimersOf(contentRequests[i].waiters)
    /\ UNCHANGED <<scrollTop, scrollFollowed>>

\* fetch rejects (network failure): the .then callback never runs, so the
\* rejected promise stays in requestCache.
ContentNetworkError(i) ==
    /\ contentRequests[i].stage = "sent"
    /\ LoadFailed(contentRequests[i].waiters)
    /\ AfterWaiters(contentRequests[i].waiters)
    /\ contentRequests' = RemoveAt(contentRequests, i)
    /\ lastEvent' = LoadEvent("loadFail", contentRequests[i], NoNode)
    /\ UNCHANGED <<documentId, navigationData, navigationExpandedItems, error,
                   navRequest, requestCache, searchVars, fpVars, hlVars, bhVars,
                   referencePopup>>
    /\ scrollTimers' = scrollTimers \cup ScrollTimersOf(contentRequests[i].waiters)
    /\ UNCHANGED <<scrollTop, scrollFollowed>>

\* response.json() rejects after the cache key was deleted.
ContentBodyError(i) ==
    /\ contentRequests[i].stage = "body"
    /\ LoadFailed(contentRequests[i].waiters)
    /\ AfterWaiters(contentRequests[i].waiters)
    /\ contentRequests' = RemoveAt(contentRequests, i)
    /\ lastEvent' = LoadEvent("loadFail", contentRequests[i], NoNode)
    /\ UNCHANGED <<documentId, navigationData, navigationExpandedItems, error,
                   navRequest, requestCache, searchVars, fpVars, hlVars, bhVars,
                   referencePopup>>
    /\ scrollTimers' = scrollTimers \cup ScrollTimersOf(contentRequests[i].waiters)
    /\ UNCHANGED <<scrollTop, scrollFollowed>>

\* ------------------------------------------------------------------------
\* Clicks
\* ------------------------------------------------------------------------

\* A slip of handleNavigationClick: it loads the clicked item itself.
handleNavigationClick_LoadsClicked(item) ==
    /\ selectedItem' = item.id
    /\ navigationExpandedItems' = navigationExpandedItems \cup {item.id}
    /\ IF isContentAlreadyLoaded(item.id)
       THEN /\ lastEvent' = ClickEvent(item.id, Null, item.id)
            /\ scrollTop' = scrollToElement(item.id)
            /\ UNCHANGED <<loadVars, scrollTimers>>
       ELSE /\ StartLoad(item.id, Waiter(item.id, "click", item.id))
            /\ scrollTimers' = ScrollTimersAtStart(Waiter(item.id, "click", item.id))
            /\ lastEvent' = ClickEvent(item.id, item.id, Null)
            /\ UNCHANGED scrollTop
    /\ UNCHANGED <<documentId, navigationData, currentContent, contentExpandedItems,
                   mountVars, searchVars, fpVars, hlVars, bhVars,
                   referencePopup, scrollFollowed>>

\* A slip of handleNavigationClick: the already-loaded test is left out.
handleNavigationClick_AlwaysLoads(item) ==
    LET contentIdToLoad == findParentContentId(navigationData, item)
    IN  /\ selectedItem' = item.id
        /\ navigationExpandedItems' = navigationExpandedItems \cup {item.id}
        /\ StartLoad(contentIdToLoad, Waiter(contentIdToLoad, "click", item.id))
        /\ lastEvent' = ClickEvent(item.id, contentIdToLoad, Null)
        /\ UNCHANGED <<documentId, navigationData, currentContent, contentExpandedItems,
                       mountVars, searchVars, fpVars, hlVars, bhVars,
                   referencePopup, scrollVars>>

\* handleNavigationClick(item), up to the await inside loadContentForItem;
\* seeAlsoText is the text handleSeeAlsoClick was given when the call comes
\* from there (kept in the history only), and empty otherwise.
handleNavigationClickFrom(item, seeAlsoText) ==
    LET contentIdToLoad == findParentContentId(navigationData, item)
    IN  /\ selectedItem' = item.id
        /\ navigationExpandedItems' = navigationExpandedItems \cup {item.id}
        /\ IF isContentAlreadyLoaded(item.id)
           THEN /\ lastEvent' = [ClickEvent(item.id, Null, item.id)
                                    EXCEPT !.term = seeAlsoText]
                /\ scrollTop' = scrollToElement(item.id)
                /\ UNCHANGED <<loadVars, scrollTimers>>
           ELSE /\ StartLoad(contentIdToLoad, Waiter(contentIdToLoad, "click", item.id))
                /\ scrollTimers' =
                      ScrollTimersAtStart(Waiter(contentIdToLoad, "click", item.id))
                /\ lastEvent' = [ClickEvent(item.id, contentIdToLoad, Null)
                                    EXCEPT !.term = seeAlsoText]
                /\ UNCHANGED scrollTop
        /\ UNCHANGED <<documentId, navigationData, currentContent, contentExpandedItems,
                       mountVars, searchVars, fpVars, hlVars, bhVars,
                   referencePopup, scrollFollowed>>

handleNavigationClick(item) == handleNavigationClickFrom(item, <<>>)

\* The click can be taken within the model's bound on pending loads.
WithinLoads(item) ==
    isContentAlreadyLoaded(item.id) \/ WaiterCount(contentRequests) < MaxLoads

\* A click on an entry of the navigation sidebar.
NavigationClick ==
    /\ Interactive
    /\ NavigationShown
    /\ \E item \in Range(NodesOf(navigationData)) :
          WithinLoads(item) /\ handleNavigationClick(item)

\* handleReferenceClick ran: id is target_content_id, target the content id it
\* asked loadContentForItem for, scroll the id it scrolled to at once.
RefClickEvent(id, target, scroll) ==
    [OtherEvent EXCEPT !.type = "refClick", !.id = id, !.target = target,
                       !.scroll = scroll]

\* handleReferenceClick(reference), up to the await inside loadContentForItem.
\* A reference without target_content_id does nothing.
handleReferenceClick(reference) ==
    LET target == reference.target_content_id
    IN  IF target = Null
        THEN /\ lastEvent' = OtherEvent
             /\ UNCHANGED <<selectedItem, loadVars, scrollTop, scrollTimers>>
        ELSE /\ selectedItem' = target
             /\ IF isContentAlreadyLoaded(target)
                THEN /\ lastEvent' = RefClickEvent(target, Null, target)
                     /\ scrollTop' = scrollToElement(target)
                     /\ UNCHANGED <<loadVars, scrollTimers>>
                ELSE /\ StartLoad(target, Waiter(target, "ref", target))
                     /\ scrollTimers' = ScrollTimersAtStart(Waiter(target, "ref", target))
                     /\ lastEvent' = RefClickEvent(target, target, Null)
                     /\ UNCHANGED scrollTop

\* The references of the document's content point at its nodes, or nowhere.
ReferenceTargets == collectAllIds(DocTree(documentId)) \cup {Null}

\* A reference of the content pane is activated by the navigate path.
ReferenceNavigate ==
    /\ Interactive
    /\ currentContent # <<>>
    /\ \E target \in ReferenceTargets :
          /\ WithinLoads([id |-> target])
          /\ handleReferenceClick(RefTo(target))
    /\ UNCHANGED <<documentId, navigationData, navigationExpandedItems, currentContent,
                   contentExpandedItems, mountVars, searchVars, fpVars, hlVars, bhVars,
                   referencePopup, scrollFollowed>>

\* The references rendered in the content pane.
ContentReferences == {RefTo(target) : target \in ReferenceTargets}

\* A slip of handleReferenceClickWithPopup: the click also reaches the content
\* item around the reference, which selects the reference's target.
handleReferenceClickWithPopup_Selects(reference) ==
    /\ referencePopup' = [isOpen |-> TRUE, reference |-> reference]
    /\ selectedItem' = reference.target_content_id
    /\ lastEvent' = [OtherEvent EXCEPT !.type = "popupOpen", !.reference = reference]
    /\ UNCHANGED <<documentId, navigationData, navigationExpandedItems, currentContent,
                   contentExpandedItems, mountVars, loadVars, searchVars, fpVars, hlVars, bhVars, scrollVars>>

\* handleReferenceClickWithPopup(reference, event): the event is stopped, so
\* the onClick of the content item around the span does not run.
handleReferenceClickWithPopup(reference) ==
    /\ referencePopup' = [isOpen |-> TRUE, reference |-> reference]
    /\ lastEvent' = [OtherEvent EXCEPT !.type = "popupOpen", !.reference = reference]
    /\ UNCHANGED <<documentId, navigationData, navigationExpandedItems, contentVars,
                   mountVars, loadVars, searchVars, fpVars, hlVars, bhVars, scrollVars>>

\* A click on a highlighted reference span of the content pane.
ReferencePopupClick ==
    /\ Interactive
    /\ currentContent # <<>>
    /\ \E reference \in ContentReferences : handleReferenceClickWithPopup(reference)

\* The render: AnimatedPopup is shown.
PopupShown == referencePopup.isOpen /\ referencePopup.reference # NoReference

\* closeReferencePopup, the onClose of AnimatedPopup.
closeReferencePopup ==
    /\ Interactive
    /\ PopupShown
    /\ referencePopup' = [isOpen |-> FALSE, reference |-> NoReference]
    /\ lastEvent' = [OtherEvent EXCEPT !.type = "popupClose"]
    /\ UNCHANGED <<documentId, navigationData, navigationExpandedItems, contentVars,
                   mountVars, loadVars, searchVars, fpVars, hlVars, bhVars, scrollVars>>

\* The characters of the model's alphabet that [A-Za-z0-9] matches.
AsciiAlnum == {"a", "b", "e", "o", "t", "u", "x", "z", "A", "B", "N", "S", "0", "1", "2"}

\* The class [A-Za-z0-9.-] of the see-also pattern.
IsCodeChar(c) == c \in AsciiAlnum \cup {".", "-"}

\* The end of a greedy \s+ that starts at i: the first index from i on that
\* holds no white space (Len(s) + 1 when there is none).
RECURSIVE SkipWhiteSpace(_, _)
SkipWhiteSpace(s, i) ==
    IF i > Len(s) \/ ~IsWhiteSpace(s[i]) THEN i ELSE SkipWhiteSpace(s, i + 1)

\* The end of a greedy [A-Za-z0-9.-]+ that starts at i.
RECURSIVE SkipCodeChars(_, _)
SkipCodeChars(s, i) ==
    IF i > Len(s) \/ ~IsCodeChar(s[i]) THEN i ELSE SkipCodeChars(s, i + 1)

\* /Note\s+([A-Za-z0-9.-]+)/ matches s at index i.
NoteMatchAt(s, i) ==
    /\ i + 5 <= Len(s)
    /\ s[i] = "N" /\ s[i + 1] = "o" /\ s[i + 2] = "t" /\ s[i + 3] = "e"
    /\ IsWhiteSpace(s[i + 4])
    /\ SkipWhiteSpace(s, i + 4) <= Len(s)
    /\ IsCodeChar(s[SkipWhiteSpace(s, i + 4)])

\* seeAlsoText.match(/Note\s+([A-Za-z0-9.-]+)/): the captured group of the
\* leftmost match, or the empty string when there is no match (a match never
\* captures the empty string).
matchNote(seeAlsoText) ==
    LET starts == {i \in 1..Len(seeAlsoText) : NoteMatchAt(seeAlsoText, i)}
    IN  IF starts = {} THEN <<>>
        ELSE LET i == CHOOSE m \in starts : \A n \in starts : m <= n
                 j == SkipWhiteSpace(seeAlsoText, i + 4)
             IN  SubSeq(seeAlsoText, j, SkipCodeChars(seeAlsoText, j) - 1)

\* A slip of findNote: only reference_code is compared.
RECURSIVE findNote_CodeOnly(_, _)
findNote_CodeOnly(nodes, noteReference) ==
    IF nodes = <<>> THEN NoNode
    ELSE IF Head(nodes).reference_code = noteReference THEN Head(nodes)
    ELSE LET found == findNote_CodeOnly(Head(nodes).children, noteReference)
         IN  IF found # NoNode THEN found
             ELSE findNote_CodeOnly(Tail(nodes), noteReference)

\* findNote of handleSeeAlsoClick.
RECURSIVE findNote(_, _)
findNote(nodes, noteReference) ==
    IF nodes = <<>> THEN NoNode
    ELSE IF \/ Head(nodes).reference_code = noteReference
            \/ includes(Head(nodes).title, noteReference)
            \/ includes(Head(nodes).content_text, noteReference)
         THEN Head(nodes)
    ELSE LET found == findNote(Head(nodes).children, noteReference)
         IN  IF found # NoNode THEN found
             ELSE findNote(Tail(nodes), noteReference)

\* The node handleSeeAlsoClick(seeAlsoText) hands to handleNavigationClick,
\* NoNode when it hands over none.
noteItemOf(seeAlsoText) ==
    LET noteReference == matchNote(seeAlsoText)
    IN  IF noteReference = <<>> THEN NoNode
        ELSE findNote(navigationData, noteReference)

\* handleSeeAlsoClick(seeAlsoText).
handleSeeAlsoClick(seeAlsoText) ==
    LET noteItem == noteItemOf(seeAlsoText)
    IN  IF noteItem = NoNode
        THEN /\ lastEvent' = [OtherEvent EXCEPT !.type = "seeAlsoMiss",
                                                !.term = seeAlsoText]
             /\ UNCHANGED <<documentId, navigationData, navigationExpandedItems,
                            contentVars, mountVars, loadVars, searchVars, fpVars,
                            hlVars, bhVars, referencePopup, scrollVars>>
        ELSE /\ WithinLoads(noteItem)
             /\ handleNavigationClickFrom(noteItem, seeAlsoText)

\* The content_text of the see_also items of the content pane: a note found
\* by its reference_code, one that two nodes match, one after other text and
\* two blanks, one in lower case, one that no node matches, and one whose
\* code ends the sentence.
SeeAlsoTexts ==
    { <<"N", "o", "t", "e", " ", "b">>,
      <<"N", "o", "t", "e", " ", "u">>,
      <<"S", "e", "e", " ", "N", "o", "t", "e", " ", " ", "a", ")">>,
      <<"n", "o", "t", "e", " ", "b">>,
      <<"N", "o", "t", "e", " ", "z">>,
      <<"N", "o", "t", "e", " ", "a", ".">> }

\* A click on a see-also link of the content pane.
SeeAlsoClick ==
    /\ Interactive
    /\ currentContent # <<>>
    /\ \E seeAlsoText \in SeeAlsoTexts : handleSeeAlsoClick(seeAlsoText)

\* A click on an item of the content pane: onClick={() => setSelectedItem(item.id)}.
ContentItemClick ==
    /\ Interactive
    /\ \E id \in collectAllIds(currentContent) : selectedItem' = id
    /\ lastEvent' = OtherEvent
    /\ UNCHANGED <<documentId, navigationData, navigationExpandedItems, currentContent,
                   contentExpandedItems, mountVars, loadVars, searchVars, fpVars, hlVars, bhVars,
                   referencePopup, scrollVars>>

\* ------------------------------------------------------------------------
\* The search coordinator
\* ------------------------------------------------------------------------

\* The delay handleSearch passes to setTimeout, in milliseconds.
DebounceMs == 300

\* Steps of the clock per debounce delay.
TicksPerDebounce == 2

TickMs == DebounceMs \div TicksPerDebounce

\* Most search fetches that may be in flight together.
MaxSearches == 2

\* What the user types into the search box: nothing, a blank, and two terms.
SearchTerms == {<<>>, <<" ">>, <<"b">>, <<"B", "u">>}

\* A SearchResult of the backend: it carries contentType and parentId, not
\* content_type and parent_id, so the viewer reads both as undefined.
SearchResult(id) == Node(id, Null, "undefined", <<>>)

\* The results arrays of the backend's search responses.
SearchResponses == {<<>>, <<SearchResult(2)>>, <<SearchResult(2), SearchResult(9)>>}

\* A JS argument that is a string, and one that is an options object.
StringArg(str) == [kind |-> "string", documentId |-> NoDocument, value |-> str]

OptionsArg(doc) == [kind |-> "object", documentId |-> doc, value |-> <<>>]

\* buildingCodeService.searchContent(query, options): the request it sends.
\* options?.documentId of a string is undefined.
searchContent(query, options) ==
    [path |-> "/search", q |-> query,
     documentId |-> IF options.kind = "object" THEN options.documentId ELSE NoDocument]

\* A slip of matchesSearch: only the title is looked at.
MatchesSearch_TitleOnly(node, term) ==
    includes(toLowerCase(node.title), toLowerCase(term))

\* The matchesSearch test of the fallback scan.
MatchesSearch(node, term) ==
    \/ includes(toLowerCase(node.title), toLowerCase(term))
    \/ includes(toLowerCase(node.content_text), toLowerCase(term))
    \/ includes(toLowerCase(node.reference_code), toLowerCase(term))

\* searchInNodes of the catch block: the matching nodes, parent before
\* children.
RECURSIVE searchInNodes(_, _)
searchInNodes(nodes, term) ==
    IF nodes = <<>> THEN <<>>
    ELSE (IF MatchesSearch(Head(nodes), term) THEN <<Head(nodes)>> ELSE <<>>)
         \o searchInNodes(Head(nodes).children, term)
         \o searchInNodes(Tail(nodes), term)

\* A handle setTimeout has not given out among the pending timers and the
\* stored handle.
FreshTimerId ==
    CHOOSE n \in 1..(Cardinality(timers) + 2) :
        /\ n # searchTimeoutRef
        /\ \A t \in timers : t.id # n

\* The debounce timer handleSearch sets: its callback closes over term,
\* documentId and navigationData.
DebounceTimer(id, term) ==
    [id |-> id, term |-> term, doc |-> documentId, nav |-> navigationData,
     due |-> DebounceMs]

\* handleSearch(term): the synchronous part.
handleSearch(term) ==
    /\ searchTerm' = term
    /\ timers' = {t \in timers : t.id # searchTimeoutRef}
                 \cup {DebounceTimer(FreshTimerId, term)}
    /\ searchTimeoutRef' = FreshTimerId
    /\ searchHist' = [elapsed |-> 0, calls |-> 0, lastTerm |-> term]
    /\ lastEvent' = [OtherEvent EXCEPT !.type = "handleSearch", !.term = term]
    /\ UNCHANGED <<searchResults, searchRequests>>

\* The user changes the text of the search box.
QueryChange ==
    /\ Interactive
    /\ Len(searchRequests) < MaxSearches
    /\ \E term \in SearchTerms \ {searchTerm} : handleSearch(term)
    /\ UNCHANGED <<documentId, navigationData, navigationExpandedItems, contentVars,
                   mountVars, loadVars, fpVars, hlVars, bhVars,
                   referencePopup, scrollVars>>

\* Time passes by TickMs; a timer that is due fires before more time passes.
Tick ==
    /\ \A t \in timers \cup scrollTimers : t.due > 0
    /\ \/ timers # {}
       \/ scrollTimers # {}
       \/ searchTimeoutRef # Null /\ searchHist.elapsed < DebounceMs + TickMs
    /\ timers' = {[t EXCEPT !.due = Max(0, t.due - TickMs)] : t \in timers}
    /\ searchHist' = [searchHist EXCEPT
                         !.elapsed = IF searchTimeoutRef = Null THEN 0
                                     ELSE Min(DebounceMs + TickMs,
                                              searchHist.elapsed + TickMs)]
    /\ scrollTimers' = {[t EXCEPT !.due = Max(0, t.due - TickMs),
                                  !.waited = Min(ScrollDelayMs + TickMs, t.waited + TickMs)] :
                            t \in scrollTimers}
    /\ lastEvent' = OtherEvent
    /\ UNCHANGED <<searchTerm, searchResults, searchTimeoutRef, searchRequests,
                   documentId, navigationData, navigationExpandedItems, contentVars,
                   mountVars, loadVars, fpVars, hlVars, bhVars,
                   referencePopup, scrollTop, scrollFollowed>>

\* A scroll timer fires: scrollToElement(id), taken with its animation frame.
\* The event keeps the time the timer waited and whether the element was
\* mounted.
ScrollTimerFires ==
    \E t \in scrollTimers :
        /\ t.due = 0
        /\ scrollTimers' = scrollTimers \ {t}
        /\ scrollTop' = scrollToElement(t.id)
        /\ lastEvent' = [OtherEvent EXCEPT
                            !.type = IF ElementMounted(t.id) THEN "scroll" ELSE "scrollMiss",
                            !.id = t.id, !.target = t.waited]
        /\ UNCHANGED <<documentId, navigationData, navigationExpandedItems, contentVars,
                       mountVars, loadVars, searchVars, referencePopup, fpVars, hlVars, bhVars,
                       scrollFollowed>>

\* The debounce callback up to its await (the event of a blank term keeps the
\* results it cleared): a blank term clears the results,
\* any other term is sent to searchContent as searchContent(documentId, term).
TimerFires ==
    \E t \in timers :
        /\ t.due = 0
        /\ timers' = timers \ {t}
        /\ IF trim(t.term) = <<>>
           THEN /\ searchResults' = <<>>
                /\ lastEvent' = [OtherEvent EXCEPT !.type = "searchBlank",
                                                   !.term = t.term,
                                                   !.results = searchResults]
                /\ UNCHANGED <<searchRequests, searchHist>>
           ELSE /\ searchRequests' =
                      Append(searchRequests,
                             [request |-> searchContent(t.doc, StringArg(t.term)),
                              term |-> t.term, doc |-> t.doc, nav |-> t.nav,
                              overtaken |-> FALSE, laterResults |-> <<>>])
                /\ searchHist' = [searchHist EXCEPT !.calls = searchHist.calls + 1]
                /\ lastEvent' = [OtherEvent EXCEPT !.type = "searchCall", !.term = t.term]
                /\ UNCHANGED searchResults
        /\ UNCHANGED <<searchTerm, searchTimeoutRef, documentId, navigationData,
                       navigationExpandedItems, contentVars, mountVars, loadVars,
                       fpVars, hlVars, bhVars,
                   referencePopup, scrollVars>>

\* History kept on the search requests still in flight when request i
\* settles with results: every request issued before it learns that a later
\* one has completed first, and with what.
MarkSearchOrder(reqs, i, results) ==
    [j \in 1..Len(reqs) |->
        IF j < i THEN [reqs[j] EXCEPT !.overtaken = TRUE, !.laterResults = results]
        ELSE reqs[j]]

\* Request i has settled: overtaken tells whether a request issued after it
\* had completed before, replaced is searchResults before the step.
SearchEvent(type, i, results) ==
    [OtherEvent EXCEPT !.type = type, !.id = i, !.term = searchRequests[i].term,
                       !.results = results,
                       !.overtaken = searchRequests[i].overtaken,
                       !.replaced = searchResults]

\* A guard the callback does not have: the response of an overtaken search
\* is dropped.
SearchResponds_DropsOvertaken(i) ==
    /\ \E results \in SearchResponses :
          /\ searchResults' = IF searchRequests[i].overtaken THEN searchResults
                              ELSE results
          /\ lastEvent' = SearchEvent("searchOk", i, results)
          /\ searchRequests' = RemoveAt(MarkSearchOrder(searchRequests, i, results), i)
    /\ UNCHANGED <<searchTerm, searchTimeoutRef, timers, searchHist, documentId,
                   navigationData, navigationExpandedItems, contentVars, mountVars,
                   loadVars, fpVars, hlVars, bhVars,
                   referencePopup, scrollVars>>

\* searchContent resolves: setSearchResults(searchResponse.results).
SearchResponds(i) ==
    /\ \E results \in SearchResponses :
          /\ searchResults' = results
          /\ lastEvent' = SearchEvent("searchOk", i, results)
          /\ searchRequests' = RemoveAt(MarkSearchOrder(searchRequests, i, results), i)
    /\ UNCHANGED <<searchTerm, searchTimeoutRef, timers, searchHist, documentId,
                   navigationData, navigationExpandedItems, contentVars, mountVars,
                   loadVars, fpVars, hlVars, bhVars,
                   referencePopup, scrollVars>>

\* searchContent rejects (network failure or a non-OK status): the catch
\* block scans the navigationData the callback closed over.
SearchFails(i) ==
    LET results == searchInNodes(searchRequests[i].nav, searchRequests[i].term)
    IN  /\ searchResults' = results
        /\ lastEvent' = SearchEvent("searchFallback", i, results)
        /\ searchRequests' = RemoveAt(MarkSearchOrder(searchRequests, i, results), i)
        /\ UNCHANGED <<searchTerm, searchTimeoutRef, timers, searchHist, documentId,
                       navigationData, navigationExpandedItems, contentVars, mountVars,
                       loadVars, fpVars, hlVars, bhVars,
                       referencePopup, scrollVars>>

\* The clear button of the search box, shown while searchTerm is non-empty:
\* setSearchTerm("") and setSearchResults([]); the timer is left pending.
ClearSearch ==
    /\ Interactive
    /\ searchTerm # <<>>
    /\ searchTerm' = <<>>
    /\ searchResults' = <<>>
    /\ lastEvent' = OtherEvent
    /\ UNCHANGED <<searchTimeoutRef, timers, searchRequests, searchHist, documentId,
                   navigationData, navigationExpandedItems, contentVars, mountVars,
                   loadVars, fpVars, hlVars, bhVars,
                   referencePopup, scrollVars>>

\* ------------------------------------------------------------------------
\* The viewer
\* ------------------------------------------------------------------------

FpIdle ==
    /\ fpNav = <<>> /\ fpItem = NoNode /\ fpResult = Null /\ fpPc = "idle"

HlIdle ==
    /\ hlText = <<>> /\ hlRefs = <<>> /\ hlOut = <<>> /\ hlPc = "idle"

BhIdle ==
    /\ flatData = <<>> /\ hierarchy = <<>> /\ bhPc = "idle"

\* The component after construction, before its mount effect has run.
ViewerInit ==
    /\ documentId \in DocumentIds \cup {NoDocument}
    /\ navigationData = <<>>
    /\ currentContent = <<>>
    /\ loading = TRUE
    /\ contentLoading = FALSE
    /\ error = NoError
    /\ selectedItem = Null
    /\ navigationExpandedItems = {}
    /\ contentExpandedItems = {}
    /\ searchTerm = <<>>
    /\ searchResults = <<>>
    /\ referencePopup = [isOpen |-> FALSE, reference |-> NoReference]
    /\ searchTimeoutRef = Null
    /\ mountPc = "start"
    /\ timers = {}
    /\ scrollTimers = {}
    /\ scrollTop = Null
    /\ scrollFollowed = FALSE
    /\ navRequest = NoDocument
    /\ contentRequests = <<>>
    /\ requestCache = {}
    /\ searchRequests = <<>>
    /\ searchHist = [elapsed |-> 0, calls |-> 0, lastTerm |-> <<>>]
    /\ lastEvent = OtherEvent

Init == ViewerInit /\ FpIdle /\ HlIdle /\ BhIdle

\* The content-loading coordinator: the mount effect, sidebar and content
\* clicks, and the content fetches; the search box is left untouched.
Next ==
    \/ FetchDataStart
    \/ NavigationLoaded
    \/ NavigationFailed
    \/ \E i \in 1..Len(contentRequests) : ContentHeadersOk(i)
    \/ \E i \in 1..Len(contentRequests) : ContentBodyOk(i)
    \/ \E i \in 1..Len(contentRequests) : ContentHttpError(i)
    \/ \E i \in 1..Len(contentRequests) : ContentNetworkError(i)
    \/ \E i \in 1..Len(contentRequests) : ContentBodyError(i)
    \/ NavigationClick
    \/ ContentItemClick

Spec == Init /\ [][Next]_vars

\* The content pane on its own: the mount effect, the content fetches, and
\* what the user can activate inside the pane.
ContentNext ==
    \/ FetchDataStart
    \/ NavigationLoaded
    \/ NavigationFailed
    \/ \E i \in 1..Len(contentRequests) : ContentHeadersOk(i)
    \/ \E i \in 1..Len(contentRequests) : ContentBodyOk(i)
    \/ \E i \in 1..Len(contentRequests) : ContentHttpError(i)
    \/ \E i \in 1..Len(contentRequests) : ContentNetworkError(i)
    \/ \E i \in 1..Len(contentRequests) : ContentBodyError(i)
    \/ ContentItemClick
    \/ ReferenceNavigate

ContentSpec == Init /\ [][ContentNext]_vars

\* The effect runs once the component has been committed, and every fetch is
\* answered or fails in the end: its headers arrive or the fetch rejects, and
\* a body that is being read is read to its end or fails.
MountFairness ==
    /\ WF_vars(FetchDataStart)
    /\ WF_vars(NavigationLoaded \/ NavigationFailed)
    /\ \A i \in 1..MaxLoads :
          /\ WF_vars(i <= Len(contentRequests)
                       /\ (ContentHeadersOk(i) \/ ContentHttpError(i)
                             \/ ContentNetworkError(i)))
          /\ WF_vars(i <= Len(contentRequests)
                       /\ (ContentBodyOk(i) \/ ContentBodyError(i)))

\* The content-loading coordinator with its fetches answered in the end.
LiveSpec == Init /\ [][Next]_vars /\ MountFairness

\* Sidebar clicks with the clock, one load at a time: the loads they start and
\* the scrolls that follow the loads.
ScrollNext ==
    \/ FetchDataStart
    \/ NavigationLoaded
    \/ NavigationFailed
    \/ \E i \in 1..Len(contentRequests) : ContentHeadersOk(i)
    \/ \E i \in 1..Len(contentRequests) : ContentBodyOk(i)
    \/ \E i \in 1..Len(contentRequests) : ContentHttpError(i)
    \/ \E i \in 1..Len(contentRequests) : ContentNetworkError(i)
    \/ contentRequests = <<>> /\ NavigationClick
    \/ Tick
    \/ ScrollTimerFires

\* The start of Init for the document that has content, with the scrolls
\* followed.
ScrollInit ==
    /\ FpIdle
    /\ HlIdle
    /\ BhIdle
    /\ documentId = D1
    /\ navigationData = <<>>
    /\ currentContent = <<>>
    /\ loading = TRUE
    /\ contentLoading = FALSE
    /\ error = NoError
    /\ selectedItem = Null
    /\ navigationExpandedItems = {}
    /\ contentExpandedItems = {}
    /\ searchTerm = <<>>
    /\ searchResults = <<>>
    /\ referencePopup = [isOpen |-> FALSE, reference |-> NoReference]
    /\ searchTimeoutRef = Null
    /\ mountPc = "start"
    /\ timers = {}
    /\ scrollTimers = {}
    /\ scrollTop = Null
    /\ scrollFollowed = TRUE
    /\ navRequest = NoDocument
    /\ contentRequests = <<>>
    /\ requestCache = {}
    /\ searchRequests = <<>>
    /\ searchHist = [elapsed |-> 0, calls |-> 0, lastTerm |-> <<>>]
    /\ lastEvent = OtherEvent

ScrollSpec == ScrollInit /\ [][ScrollNext]_vars

\* The mount effect over changes of the documentId prop.
RemountNext ==
    \/ FetchDataStart
    \/ NavigationLoaded
    \/ NavigationFailed
    \/ \E i \in 1..Len(contentRequests) : ContentHeadersOk(i)
    \/ \E i \in 1..Len(contentRequests) : ContentBodyOk(i)
    \/ \E i \in 1..Len(contentRequests) : ContentHttpError(i)
    \/ \E i \in 1..Len(contentRequests) : ContentNetworkError(i)
    \/ \E i \in 1..Len(contentRequests) : ContentBodyError(i)
    \/ DocumentChange

RemountSpec == Init /\ [][RemountNext]_vars

\* The see-also links of the content pane with the content fetches they
\* start.
SeeAlsoNext ==
    \/ FetchDataStart
    \/ NavigationLoaded
    \/ NavigationFailed
    \/ \E i \in 1..Len(contentRequests) : ContentHeadersOk(i)
    \/ \E i \in 1..Len(contentRequests) : ContentBodyOk(i)
    \/ \E i \in 1..Len(contentRequests) : ContentHttpError(i)
    \/ \E i \in 1..Len(contentRequests) : ContentNetworkError(i)
    \/ \E i \in 1..Len(contentRequests) : ContentBodyError(i)
    \/ SeeAlsoClick

SeeAlsoSpec == Init /\ [][SeeAlsoNext]_vars

\* The content-loading coordinator together with the reference popup.
PopupNext ==
    \/ FetchDataStart
    \/ NavigationLoaded
    \/ NavigationFailed
    \/ \E i \in 1..Len(contentRequests) : ContentHeadersOk(i)
    \/ \E i \in 1..Len(contentRequests) : ContentBodyOk(i)
    \/ \E i \in 1..Len(contentRequests) : ContentHttpError(i)
    \/ \E i \in 1..Len(contentRequests) : ContentNetworkError(i)
    \/ \E i \in 1..Len(contentRequests) : ContentBodyError(i)
    \/ NavigationClick
    \/ ContentItemClick
    \/ ReferencePopupClick
    \/ closeReferencePopup

PopupSpec == Init /\ [][PopupNext]_vars

\* The search coordinator: the mount effect, the search box, the debounce
\* timer, the search fetches, and the fetch of the first item's content that
\* the mount effect starts. Clicks are left out: they share no state with the
\* search.
SearchNext ==
    \/ FetchDataStart
    \/ NavigationLoaded
    \/ NavigationFailed
    \/ \E i \in 1..Len(contentRequests) : ContentHeadersOk(i)
    \/ \E i \in 1..Len(contentRequests) : ContentBodyOk(i)
    \/ \E i \in 1..Len(contentRequests) : ContentHttpError(i)
    \/ \E i \in 1..Len(contentRequests) : ContentNetworkError(i)
    \/ \E i \in 1..Len(contentRequests) : ContentBodyError(i)
    \/ QueryChange
    \/ Tick
    \/ TimerFires
    \/ \E i \in 1..Len(searchRequests) : SearchResponds(i)
    \/ \E i \in 1..Len(searchRequests) : SearchFails(i)
    \/ ClearSearch

SearchSpec == Init /\ [][SearchNext]_vars

\* ------------------------------------------------------------------------
\* Properties of the content-loading coordinator (under Spec)
\* ------------------------------------------------------------------------

\* Every id a check asks about: the ids of D1 and one id no document holds.
AllIds == collectAllIds(DocTree(D1)) \cup {9}

\* C2: right after a loadContentForItem call completes successfully,
\* isContentAlreadyLoaded(id) is true for every id of the fetched subtree, at
\* the root or nested, and false for every other id.
C2_LoadedIffInFetchedSubtree ==
    lastEvent.type = "loadOk" =>
        \A id \in AllIds :
            isContentAlreadyLoaded(id) <=> id \in collectAllIds(<<lastEvent.item>>)

\* C2 witness: a load of the section has completed; its nested clause is
\* loaded and the article outside it is not.
C2_Witness ==
    /\ lastEvent.type = "loadOk"
    /\ lastEvent.item.id = 1
    /\ isContentAlreadyLoaded(2)
    /\ ~isContentAlreadyLoaded(3)

\* C7: when loadContentForItem(nodeId) completes successfully, currentContent
\* is exactly the one-element list holding the fetched subtree and
\* selectedItem is nodeId.
C7_LoadReplacesContent ==
    lastEvent.type = "loadOk" =>
        /\ currentContent = <<lastEvent.item>>
        /\ selectedItem = lastEvent.id
        /\ \A k \in 1..Len(lastEvent.waiters) : lastEvent.waiters[k].contentId = lastEvent.id

\* C7 witness: a load completed while another, unrelated subtree was shown.
C7_Witness ==
    /\ lastEvent.type = "loadOk"
    /\ lastEvent.prevRoot # Null
    /\ lastEvent.prevRoot \notin collectAllIds(<<lastEvent.item>>)
    /\ lastEvent.item.id \notin collectAllIds(<<BackendContent(documentId, lastEvent.prevRoot)>>)

\* The loadContentForItem calls for contentId that scroll to x are awaiting a
\* fetch of contentId of the current document, or its cached promise is
\* already rejected.
LoadRequested(contentId, x) ==
    \/ \E i \in 1..Len(contentRequests) :
          /\ contentRequests[i].key = CacheKey(documentId, contentId)
          /\ \E k \in 1..Len(contentRequests[i].waiters) :
                contentRequests[i].waiters[k] = Waiter(contentId, "click", x)
    \/ /\ CacheKey(documentId, contentId) \in requestCache
       /\ PendingFor(contentRequests, CacheKey(documentId, contentId)) = {}

\* C6: a navigation click on a node X that is not loaded fetches the content
\* rooted at findParentContentId(X), and when that load has completed
\* successfully currentContent contains X (the backend returning for each id
\* the subtree navigationData shows under it).
C6_ClickLoadsUnitContainingItem ==
    /\ (lastEvent.type = "click" /\ lastEvent.target # Null) =>
          /\ lastEvent.target =
                findParentContentId(navigationData,
                                    findParentInNavigation(navigationData, lastEvent.id))
          /\ LoadRequested(lastEvent.target, lastEvent.id)
    /\ lastEvent.type = "loadOk" =>
          \A k \in 1..Len(lastEvent.waiters) :
              lastEvent.waiters[k].origin = "click" =>
                  /\ lastEvent.item = findParentInNavigation(navigationData, lastEvent.id)
                  /\ isContentAlreadyLoaded(lastEvent.waiters[k].scrollTo)

\* C6 witness: the load started by a click on the clause has completed; it
\* fetched the section above the clause and the pane now holds the clause.
C6_Witness ==
    /\ lastEvent.type = "loadOk"
    /\ lastEvent.id = 1
    /\ \E k \in 1..Len(lastEvent.waiters) :
          lastEvent.waiters[k] = Waiter(1, "click", 2)
    /\ isContentAlreadyLoaded(2)

OverlappedEarlierCompletion ==
    /\ lastEvent.type = "loadOk"
    /\ (lastEvent.overtakenBy # Null \/ lastEvent.afterEarlier # Null)

ViewerIdle == ViewerInit /\ documentId = NoDocument

\* Longest ancestor chain of the generated navigation forests.
MaxDepth == 4

FpTypes == {"division", "part", "section", "clause"}

\* A chain types[k] > types[k+1] > ... with ids k, k+1, ..., each node
\* carrying the id of the node above it as parent_id.
RECURSIVE ChainFrom(_, _, _)
ChainFrom(types, k, parent) ==
    IF k > Len(types) THEN <<>>
    ELSE <<Node(k, parent, types[k], ChainFrom(types, k + 1, k))>>

\* The chain of the documented example:
\* division > part > section > article > sentence > clause.
ExampleChain ==
    ChainFrom(<<"division", "part", "section", "article", "sentence", "clause">>, 1, Null)

\* The navigation forests tried: a root article (id 9) followed by a chain of
\* every combination of types, and the example chain.
FpNavs ==
    {<<Node(9, Null, "article", <<>>)>> \o ChainFrom(t, 1, Null) :
        t \in UNION {[1..d -> FpTypes] : d \in 1..MaxDepth}}
    \cup {ExampleChain}

FindInit ==
    /\ ViewerIdle
    /\ HlIdle
    /\ BhIdle
    /\ fpNav \in FpNavs
    /\ fpItem \in Range(NodesOf(fpNav))
    /\ fpResult = Null
    /\ fpPc = "ready"

FindParent ==
    /\ fpPc = "ready"
    /\ fpResult' = findParentContentId(fpNav, fpItem)
    /\ fpPc' = "done"
    /\ UNCHANGED <<fpNav, fpItem, hlVars, bhVars, referencePopup, documentId, navigationData,
                   navigationExpandedItems, contentVars, mountVars, loadVars,
                   searchVars, lastEvent, scrollVars>>

FindNext == FindParent

FindSpec == FindInit /\ [][FindNext]_vars

\* parent_id values of any kind: none, the node itself, a descendant, an
\* ancestor, a node of another tree, and an id the forest does not hold (9).
LooseParents == {Null, 1, 2, 3, 9}

LooseTypes == {"section", "article", "clause"}

\* The forests with a root 1 over a child 2 and a root 3, every node with any
\* of the types and any of the parent_id values.
LooseNavs ==
    {<<Node(1, p[1], t[1], <<Node(2, p[2], t[2], <<>>)>>), Node(3, p[3], t[3], <<>>)>> :
        p \in [1..3 -> LooseParents], t \in [1..3 -> LooseTypes]}

FindLooseInit ==
    /\ ViewerIdle
    /\ HlIdle
    /\ BhIdle
    /\ fpNav \in LooseNavs
    /\ fpItem \in Range(NodesOf(fpNav))
    /\ fpResult = Null
    /\ fpPc = "ready"

\* findParentContentId over forests whose parent_id values are unchecked.
FindLooseSpec == FindLooseInit /\ [][FindNext]_vars

\* The part and section nodes that hold x strictly below them in the tree.
UnitsAbove(nav, x) ==
    {p \in Range(NodesOf(nav)) :
        /\ p.content_type \in {"part", "section"}
        /\ x.id \in collectAllIds(p.children)}

\* The id of the innermost part or section holding x, read off the tree
\* structure; x's own id when x is a division, part or section or when no
\* part or section holds it.
NearestUnit(nav, x) ==
    IF x.content_type \in {"division", "part", "section"} \/ UnitsAbove(nav, x) = {}
    THEN x.id
    ELSE (CHOOSE p \in UnitsAbove(nav, x) :
             \A q \in UnitsAbove(nav, x) :
                 q.id = p.id \/ p.id \in collectAllIds(q.children)).id

\* C3: findParentContentId(item) is item.id for a division, part or section;
\* otherwise the id of the nearest part or section ancestor (for the example
\* chain the section, not the part), or item.id when there is none.
C3_NearestPartOrSection ==
    fpPc = "done" =>
        /\ fpResult = NearestUnit(fpNav, fpItem)
        /\ (fpNav = ExampleChain /\ fpItem.id = 6) => fpResult = 3

\* C3 witness: the clause of the example chain resolved to its section.
C3_Witness ==
    /\ fpPc = "done"
    /\ fpNav = ExampleChain
    /\ fpItem.content_type = "clause"
    /\ fpResult = 3

\* ------------------------------------------------------------------------
\* highlightReferences as a function: inputs drawn at Init, applied once
\* ------------------------------------------------------------------------

\* Longest text highlighted.
MaxTextLen == 3

\* Most references of one text.
MaxRefs == 2

HlChars == {"a", "A", "I"}

HlTexts == SeqsUpTo(HlChars, MaxTextLen)

\* reference_text values: empty, one letter in either case, the letter whose
\* lower case is longer, and two-letter texts.
HlRefTexts == {<<>>, <<"a">>, <<"A">>, <<"I">>, <<"a", "I">>, <<"A", "a">>}

HlRefs == {Ref(t, pos) : t \in HlRefTexts, pos \in {1, 2}}

HighlightInit ==
    /\ ViewerIdle
    /\ FpIdle
    /\ BhIdle
    /\ hlText \in HlTexts
    /\ hlRefs \in SeqsUpTo(HlRefs, MaxRefs)
    /\ hlOut = <<>>
    /\ hlPc = "ready"

Highlight ==
    /\ hlPc = "ready"
    /\ hlOut' = highlightReferences(hlText, hlRefs)
    /\ hlPc' = "done"
    /\ UNCHANGED <<hlText, hlRefs, fpVars, bhVars, referencePopup, documentId, navigationData,
                   navigationExpandedItems, contentVars, mountVars, loadVars,
                   searchVars, lastEvent, scrollVars>>

HighlightNext == Highlight

HighlightSpec == HighlightInit /\ [][HighlightNext]_vars

\* buildHierarchy
\* ------------------------------------------------------------------------

\* parent_id: null of a flat item.  The ids of a flat list are numbers of any
\* kind, 0 among them, so null is kept apart from them here.
NoParent == -1

\* A BuildingCodeItem with the fields buildHierarchy reads.
Item(id, parent, order) == [id |-> id, parent_id |-> parent, sequence_order |-> order]

\* item.parent_id as a condition: null and 0 are falsy.
Truthy(parent) == parent # NoParent /\ parent # 0

\* map.has(id) after the first forEach.
MapHas(flat, id) == \E k \in 1..Len(flat) : flat[k].id = id

\* map.get(id) after the first forEach: a later item of the same id replaces
\* an earlier one.
MapGet(flat, id) ==
    flat[CHOOSE k \in 1..Len(flat) :
            /\ flat[k].id = id
            /\ \A j \in (k + 1)..Len(flat) : flat[j].id # id]

\* The branch of the second forEach that pushes the item's node to its
\* parent's children.
HasParent(flat, item) == Truthy(item.parent_id) /\ MapHas(flat, item.parent_id)

\* The ids of roots after the second forEach, in the order pushed.
RootIds(flat) ==
    [k \in 1..Len(SelectSeq(flat, LAMBDA it : ~HasParent(flat, it))) |->
        SelectSeq(flat, LAMBDA it : ~HasParent(flat, it))[k].id]

\* The ids of map.get(id).children after the second forEach, in the order
\* pushed.
ChildIds(flat, id) ==
    [k \in 1..Len(SelectSeq(flat, LAMBDA it : HasParent(flat, it) /\ it.parent_id = id)) |->
        SelectSeq(flat, LAMBDA it : HasParent(flat, it) /\ it.parent_id = id)[k].id]

\* Array.prototype.sort with (a, b) => a.sequence_order - b.sequence_order
\* over the nodes of the given ids: stable, ascending.
RECURSIVE InsertByOrder(_, _, _)
InsertByOrder(flat, sorted, id) ==
    IF sorted = <<>> THEN <<id>>
    ELSE IF MapGet(flat, Head(sorted)).sequence_order <= MapGet(flat, id).sequence_order
         THEN <<Head(sorted)>> \o InsertByOrder(flat, Tail(sorted), id)
         ELSE <<id>> \o sorted

RECURSIVE SortByOrder(_, _)
SortByOrder(flat, ids) ==
    IF ids = <<>> THEN <<>>
    ELSE InsertByOrder(flat, SortByOrder(flat, SubSeq(ids, 1, Len(ids) - 1)),
                       ids[Len(ids)])

\* sortChildren(nodes) for the nodes of the given ids: the nodes sorted, each
\* copied with its children sorted the same way.
RECURSIVE sortChildren(_, _)
sortChildren(flat, ids) ==
    [k \in 1..Len(ids) |->
        LET node == MapGet(flat, SortByOrder(flat, ids)[k])
        IN  [id |-> node.id, parent_id |-> node.parent_id,
             sequence_order |-> node.sequence_order,
             children |-> sortChildren(flat, ChildIds(flat, node.id))]]

buildHierarchy(flatData_) == sortChildren(flatData_, RootIds(flatData_))

\* The longest flat list tried.
MaxItems == 3

\* The ids of the items of a flat list.
ItemIds == 0..(MaxItems - 1)

\* parent_id values of any kind: null, every id and an id no list holds (9).
ItemParents == {NoParent, 9} \cup ItemIds

ItemOrders == {1, 2}

Items == {Item(id, parent, order) : id \in ItemIds, parent \in ItemParents,
                                    order \in ItemOrders}

\* The flat lists tried: the ids of one list are unique.
FlatLists ==
    {flat \in SeqsUpTo(Items, MaxItems) :
        \A j, k \in 1..Len(flat) : flat[j].id = flat[k].id => j = k}

HierarchyInit ==
    /\ ViewerIdle
    /\ FpIdle
    /\ HlIdle
    /\ flatData \in FlatLists
    /\ hierarchy = <<>>
    /\ bhPc = "ready"

BuildHierarchy ==
    /\ bhPc = "ready"
    /\ hierarchy' = buildHierarchy(flatData)
    /\ bhPc' = "done"
    /\ UNCHANGED <<flatData, fpVars, hlVars, referencePopup, documentId, navigationData,
                   navigationExpandedItems, contentVars, mountVars, loadVars,
                   searchVars, lastEvent, scrollVars>>

HierarchyNext == BuildHierarchy

HierarchySpec == HierarchyInit /\ [][HierarchyNext]_vars

RefSegments(segs) == SelectSeq(segs, LAMBDA g : g.kind = "ref")

\* C1: the segments highlightReferences emits concatenate, in emission order,
\* to exactly the input text.
C1_SegmentsConcatenateToText ==
    hlPc = "done" => ConcatSegments(hlOut) = hlText

\* C1 witness: two references given out of position order, one of them
\* unmatched, the other matched between plain text on both sides.
C1_Witness ==
    /\ hlPc = "done"
    /\ Len(hlRefs) = 2
    /\ hlRefs[1].reference_position > hlRefs[2].reference_position
    /\ Len(RefSegments(hlOut)) = 1
    /\ Len(hlOut) = 3
    /\ hlOut[2].kind = "ref"
    /\ hlOut[2].str # <<>>

\* ------------------------------------------------------------------------
\* Claims about the search coordinator (SearchSpec)
\* ------------------------------------------------------------------------

\* The debounce as handleSearch keeps it: at most one timer is pending, it is
\* the one of the last handleSearch call and is due DebounceMs after it; no
\* backend call is issued before then, and once the timer has fired there has
\* been one call if the last term is non-blank and none if it is blank.
DebounceOneCall ==
    /\ Cardinality(timers) <= 1
    /\ \A t \in timers :
          /\ t.id = searchTimeoutRef
          /\ t.term = searchHist.lastTerm
          /\ t.due = Max(0, DebounceMs - searchHist.elapsed)
    /\ lastEvent.type = "handleSearch" =>
          /\ searchTerm = lastEvent.term
          /\ \E t \in timers : t.term = lastEvent.term /\ t.due = DebounceMs
    /\ searchHist.elapsed < DebounceMs => searchHist.calls = 0
    /\ (searchTimeoutRef # Null /\ timers = {}) =>
          /\ searchHist.elapsed >= DebounceMs
          /\ searchHist.calls = (IF trim(searchHist.lastTerm) = <<>> THEN 0 ELSE 1)
    /\ lastEvent.type = "searchCall" =>
          /\ searchHist.elapsed = DebounceMs
          /\ lastEvent.term = searchHist.lastTerm

\* The search request the debounce callback has just sent.
LastSearchRequest == searchRequests[Len(searchRequests)]

\* C4: a burst of query changes leads to exactly one backend search call,
\* DebounceMs after the last change and for the last term (none for a blank
\* term); each change stores the term at once and cancels the pending timer,
\* so at most one timer is pending.
C4_OneCallForLastTerm ==
    /\ DebounceOneCall
    /\ lastEvent.type = "searchCall" =>
          LastSearchRequest.request.q = searchHist.lastTerm

C10_RequestCarriesTerm ==
    /\ \A i \in 1..Len(searchRequests) :
          /\ searchRequests[i].request.q = searchRequests[i].term
          /\ searchRequests[i].request.documentId = searchRequests[i].doc
    /\ lastEvent.type = "searchOk" => searchResults = lastEvent.results

\* What does hold of C10: a successful response replaces searchResults by
\* exactly its results, whatever they were before.
SearchResultsReplaced ==
    lastEvent.type = "searchOk" => searchResults = lastEvent.results

\* field contains term as a substring once both are lower-cased.
ContainsIgnoringCase(field, term) ==
    LET f == toLowerCase(field)
        t == toLowerCase(term)
    IN  \E i \in 0..(Len(f) - Len(t)) : \A k \in 1..Len(t) : f[i + k] = t[k]

NodeMatchesTerm(node, term) ==
    \/ ContainsIgnoringCase(node.title, term)
    \/ ContainsIgnoringCase(node.content_text, term)
    \/ ContainsIgnoringCase(node.reference_code, term)

\* C11: when the backend search call fails, searchResults becomes the nodes of
\* navigationData whose title, content_text or reference_code contains the
\* term ignoring case, in pre-order, each once; error stays null.
C11_FallbackScansNavigation ==
    lastEvent.type = "searchFallback" =>
        /\ searchResults =
              SelectSeq(NodesOf(navigationData),
                        LAMBDA n : NodeMatchesTerm(n, lastEvent.term))
        /\ \A i, j \in 1..Len(searchResults) :
              searchResults[i].id = searchResults[j].id => i = j
        /\ error = NoError

\* C11 witness: a failed search for a term that a parent matches by its title
\* in another case and its child by its reference_code, while a third node
\* does not match.
C11_Witness ==
    /\ lastEvent.type = "searchFallback"
    /\ Len(searchResults) = 2
    /\ searchResults[2].parent_id = searchResults[1].id
    /\ ~includes(searchResults[1].title, lastEvent.term)
    /\ Len(NodesOf(navigationData)) = 3

\* ------------------------------------------------------------------------
\* More claims about the content-loading coordinator (Spec)
\* ------------------------------------------------------------------------

\* C12: a navigation click on an item that is already in the content pane
\* issues no content fetch and leaves currentContent and contentExpandedItems
\* unchanged; it only selects the item, adds it to navigationExpandedItems and
\* asks for a scroll to it.
C12_ClickOnLoadedItemOnlySelects ==
    [][(lastEvent'.type = "click" /\ isContentAlreadyLoaded(lastEvent'.id)) =>
          /\ selectedItem' = lastEvent'.id
          /\ navigationExpandedItems' = navigationExpandedItems \cup {lastEvent'.id}
          /\ lastEvent'.scroll = lastEvent'.id
          /\ lastEvent'.target = Null
          /\ UNCHANGED <<currentContent, contentExpandedItems, loadVars, mountVars,
                         searchVars, documentId, navigationData, referencePopup>>]_vars

\* C12 witness: a click on a descendant of the loaded root, which was neither
\* selected nor expanded in the sidebar before, while nothing is in flight.
C12_Witness ==
    /\ lastEvent.type = "click"
    /\ lastEvent.target = Null
    /\ lastEvent.scroll = lastEvent.id
    /\ selectedItem = lastEvent.id
    /\ lastEvent.id # ContentRoot
    /\ isContentAlreadyLoaded(lastEvent.id)
    /\ lastEvent.id \in navigationExpandedItems
    /\ contentRequests = <<>>

\* C13: the navigate path of a reference whose target is not loaded fetches
\* the content id a navigation click on the target node would fetch,
\* findParentContentId of the target, and not simply target_content_id.
C13_ReferenceLoadsUnitOfTarget ==
    (lastEvent.type = "refClick" /\ lastEvent.target # Null) =>
        lastEvent.target =
            findParentContentId(navigationData,
                                findParentInNavigation(navigationData, lastEvent.id))

\* What does hold of the navigate path: it selects target_content_id and asks
\* loadContentForItem for target_content_id itself.
ReferenceLoadsTargetItself ==
    (lastEvent.type = "refClick" /\ lastEvent.target # Null) =>
        lastEvent.target = lastEvent.id

\* C14: the popup path of a reference opens the popup with that reference,
\* issues no network request and leaves currentContent, selectedItem and both
\* expand sets unchanged; closing the popup changes only the popup state.
C14_PopupChangesOnlyPopupState ==
    [][/\ lastEvent'.type = "popupOpen" =>
             /\ referencePopup' = [isOpen |-> TRUE, reference |-> lastEvent'.reference]
             /\ UNCHANGED <<contentVars, navigationExpandedItems, loadVars, mountVars,
                            searchVars, documentId, navigationData>>
       /\ lastEvent'.type = "popupClose" =>
             /\ referencePopup' = [isOpen |-> FALSE, reference |-> NoReference]
             /\ UNCHANGED <<contentVars, navigationExpandedItems, loadVars, mountVars,
                            searchVars, documentId, navigationData>>]_vars

\* C14 witness: the popup has just been opened on a reference to a node that
\* is neither loaded nor selected, while a content fetch is in flight.
C14_Witness ==
    /\ lastEvent.type = "popupOpen"
    /\ PopupShown
    /\ referencePopup.reference = lastEvent.reference
    /\ referencePopup.reference.target_content_id # Null
    /\ referencePopup.reference.target_content_id # selectedItem
    /\ ~isContentAlreadyLoaded(referencePopup.reference.target_content_id)
    /\ selectedItem # Null
    /\ contentRequests # <<>>

\* ------------------------------------------------------------------------
\* Claims about the see-also links (SeeAlsoSpec)
\* ------------------------------------------------------------------------

\* field contains code as a substring, case kept.
ContainsText(field, code) ==
    \E i \in 0..(Len(field) - Len(code)) : \A k \in 1..Len(code) : field[i + k] = code[k]

NodeMatchesNote(node, code) ==
    \/ node.reference_code = code
    \/ ContainsText(node.title, code)
    \/ ContainsText(node.content_text, code)

\* The first node of nav in pre-order that matches code, NoNode when none does.
FirstNoteNode(nav, code) ==
    LET all == NodesOf(nav)
        hits == {i \in 1..Len(all) : NodeMatchesNote(all[i], code)}
    IN  IF hits = {} THEN NoNode
        ELSE all[CHOOSE i \in hits : \A j \in hits : i <= j]

\* What a see-also step has led to: a handleNavigationClick on the first
\* matching node, or nothing when the text has no code or no node matches.
SeeAlsoResolved ==
    /\ (lastEvent.type = "click" /\ lastEvent.term # <<>>) =>
          /\ matchNote(lastEvent.term) # <<>>
          /\ lastEvent.id # Null
          /\ FirstNoteNode(navigationData, matchNote(lastEvent.term))
                = findParentInNavigation(navigationData, lastEvent.id)
          /\ selectedItem = lastEvent.id
          /\ lastEvent.id \in navigationExpandedItems
          /\ IF isContentAlreadyLoaded(lastEvent.id)
             THEN /\ lastEvent.target = Null
                  /\ lastEvent.scroll = lastEvent.id
             ELSE /\ lastEvent.target =
                        findParentContentId(
                            navigationData,
                            findParentInNavigation(navigationData, lastEvent.id))
                  /\ LoadRequested(lastEvent.target, lastEvent.id)
    /\ lastEvent.type = "seeAlsoMiss" =>
          \/ matchNote(lastEvent.term) = <<>>
          \/ FirstNoteNode(navigationData, matchNote(lastEvent.term)) = NoNode

\* What a see-also step leaves alone.
SeeAlsoFrame ==
    /\ (lastEvent'.type = "click" /\ lastEvent'.term # <<>>) =>
          /\ navigationExpandedItems' = navigationExpandedItems \cup {lastEvent'.id}
          /\ UNCHANGED <<currentContent, contentExpandedItems, mountVars, searchVars,
                         referencePopup, documentId, navigationData>>
          /\ lastEvent'.target = Null => UNCHANGED loadVars
    /\ lastEvent'.type = "seeAlsoMiss" =>
          UNCHANGED <<documentId, navigationData, navigationExpandedItems, contentVars,
                      mountVars, loadVars, searchVars, referencePopup>>

C16_EndedMountChangesNothing ==
    [][(/\ lastEvent'.type \in {"loadOk", "loadFail"}
        /\ \E k \in 1..Len(lastEvent'.waiters) :
              lastEvent'.waiters[k].origin = "unmounted") =>
          UNCHANGED <<navigationData, currentContent, selectedItem,
                      navigationExpandedItems, contentExpandedItems>>]_vars

\* What does hold of C16: the navigation fetch is aborted, so the only
\* navigation response ever awaited is the one of the current document.
NavigationFetchCancelled ==
    /\ navRequest \in {NoDocument, documentId}
    /\ (mountPc = "nav") = (navRequest # NoDocument)

\* The fetch that settled last was awaited by the mount effect.
InitialLoad ==
    \E k \in 1..Len(lastEvent.waiters) : lastEvent.waiters[k].origin = "mount"

\* C17: on document mount a failure of the navigation fetch or of the initial
\* content fetch puts the viewer in the error state (error non-null, loading
\* false), whereas a failure of a content fetch started by a navigation click
\* leaves error null.
C17_MountFailureShowsError ==
    /\ lastEvent.type = "navFail" => (error # NoError /\ ~loading)
    /\ (lastEvent.type = "loadFail" /\ InitialLoad) => (error # NoError /\ ~loading)
    /\ (lastEvent.type = "loadFail" /\ ~InitialLoad) => error = NoError

\* What does hold of C17: the navigation failure shows the error state, and
\* every content fetch failure, the initial one included, leaves error null.
ContentFailureIsSilent ==
    /\ lastEvent.type = "navFail" => (error # NoError /\ ~loading)
    /\ lastEvent.type = "loadFail" => error = NoError
    /\ (lastEvent.type = "loadFail" /\ InitialLoad) => ~loading

\* ------------------------------------------------------------------------
\* Claims about the scan of highlightReferences (HighlightSpec)
\* ------------------------------------------------------------------------

\* refText occurs in text at 0-based index i, letter case ignored.
OccursIgnoringCase(text, refText, i) ==
    /\ i >= 0
    /\ i + Len(refText) <= Len(text)
    /\ toLowerCase(SubSeq(text, i + 1, i + Len(refText))) = toLowerCase(refText)

\* refText occurs in text at or after index from, letter case ignored.
OccursFrom(text, refText, from) ==
    \E i \in from..Len(text) : OccursIgnoringCase(text, refText, i)

\* The place of references[k] in the sorted list (the sort is stable).
SortedIndex(references, k) ==
    Cardinality({m \in 1..Len(references) :
        \/ references[m].reference_position < references[k].reference_position
        \/ /\ references[m].reference_position = references[k].reference_position
           /\ m <= k})

\* (lastIndex, elements) of the scan when it reaches the j-th sorted reference.
ScanBefore(text, references, j) ==
    HighlightLoop(text, toLowerCase(text), [lastIndex |-> 0, elements |-> <<>>],
                  SubSeq(SortByPosition(references), 1, j - 1))

\* The scan passes over references[k]: no segment, cursor not moved.
Skipped(text, references, k) ==
    LET st == ScanBefore(text, references, SortedIndex(references, k))
    IN  HighlightStep(text, toLowerCase(text), st, references[k]) = st

\* C18: a reference whose reference_text does not occur, letter case ignored,
\* in the text at or after the scan cursor emits no segment and does not move
\* the cursor, and the segments emitted are those emitted when the reference
\* is removed from the list.
C18_AbsentReferenceIsSkipped ==
    hlPc = "done" =>
        \A k \in 1..Len(hlRefs) :
            LET st == ScanBefore(hlText, hlRefs, SortedIndex(hlRefs, k))
            IN  ~OccursFrom(hlText, hlRefs[k].reference_text, st.lastIndex) =>
                    /\ Skipped(hlText, hlRefs, k)
                    /\ hlOut = highlightReferences(hlText, RemoveAt(hlRefs, k))

\* What does hold of C18: a reference the scan does not find in the lower-cased
\* text at or after the cursor is passed over, and the segments are those
\* emitted without it.
UnmatchedReferenceIsSkipped ==
    hlPc = "done" =>
        \A k \in 1..Len(hlRefs) :
            LET st == ScanBefore(hlText, hlRefs, SortedIndex(hlRefs, k))
            IN  indexOf(toLowerCase(hlText), toLowerCase(hlRefs[k].reference_text),
                        st.lastIndex) = 0 - 1 =>
                    /\ Skipped(hlText, hlRefs, k)
                    /\ hlOut = highlightReferences(hlText, RemoveAt(hlRefs, k))

\* Start index in the text of segment n of segs, the segments laid end to end.
StartOf(segs, n) == Len(ConcatSegments(SubSeq(segs, 1, n - 1)))

\* Indexes of the reference segments of segs, in emission order.
RefSegmentIndexes(segs) == {n \in 1..Len(segs) : segs[n].kind = "ref"}

\* End index in the text of the last reference segment before segment n.
CursorAt(segs, n) ==
    LET before == {m \in RefSegmentIndexes(segs) : m < n}
    IN  IF before = {} THEN 0
        ELSE LET m == CHOOSE x \in before : \A y \in before : y <= x
             IN  StartOf(segs, m) + Len(segs[m].str)

\* The references of the reference segments, in emission order.
RECURSIVE RefsOf(_)
RefsOf(segs) ==
    IF segs = <<>> THEN <<>>
    ELSE IF Head(segs).kind = "ref" THEN <<Head(segs).ref>> \o RefsOf(Tail(segs))
         ELSE RefsOf(Tail(segs))

\* The references the scan passes over leave the others in sorted order.
RECURSIVE IsSubsequence(_, _)
IsSubsequence(sub, seq) ==
    IF sub = <<>> THEN TRUE
    ELSE IF seq = <<>> THEN FALSE
         ELSE IF Head(sub) = Head(seq) THEN IsSubsequence(Tail(sub), Tail(seq))
              ELSE IsSubsequence(sub, Tail(seq))

\* Every reference segment is the first occurrence of its reference_text at or
\* after the end of the reference segment before it, and the references come
\* in ascending reference_position, equal positions in list order.
FirstOccurrences(text, references, segs) ==
    /\ IsSubsequence(RefsOf(segs), SortByPosition(references))
    /\ \A n \in RefSegmentIndexes(segs) :
          LET refText == segs[n].ref.reference_text
              start   == StartOf(segs, n)
              cursor  == CursorAt(segs, n)
          IN  /\ start >= cursor
              /\ toLowerCase(segs[n].str) = toLowerCase(refText)
              /\ OccursIgnoringCase(text, refText, start)
              /\ \A i \in cursor..(start - 1) : ~OccursIgnoringCase(text, refText, i)

\* C19: the references are processed in ascending reference_position (equal
\* positions in list order); each matched one gets the first occurrence of its
\* reference_text, letter case ignored, at or after the cursor; so reference
\* segments do not overlap, come in text order and each equals its
\* reference_text up to letter case.
C19_FirstOccurrenceInOrder ==
    (hlPc = "done" /\ hlText # <<>> /\ hlRefs # <<>>) =>
        FirstOccurrences(hlText, hlRefs, hlOut)

\* Lower-casing keeps the length of every letter of s.
LowerCaseKeepsLength(s) == Len(toLowerCase(s)) = Len(s)

\* What does hold of C19: the same for texts whose lower case has the length
\* of the text.
FirstOccurrenceInPlainText ==
    (hlPc = "done" /\ hlText # <<>> /\ hlRefs # <<>> /\ LowerCaseKeepsLength(hlText)) =>
        FirstOccurrences(hlText, hlRefs, hlOut)

\* What does hold of C18 as it is worded: absent in the text means passed over,
\* for texts whose lower case has the length of the text.
AbsentReferenceIsSkippedInPlainText ==
    (hlPc = "done" /\ LowerCaseKeepsLength(hlText)) =>
        \A k \in 1..Len(hlRefs) :
            LET st == ScanBefore(hlText, hlRefs, SortedIndex(hlRefs, k))
            IN  ~OccursFrom(hlText, hlRefs[k].reference_text, st.lastIndex) =>
                    /\ Skipped(hlText, hlRefs, k)
                    /\ hlOut = highlightReferences(hlText, RemoveAt(hlRefs, k))

\* ------------------------------------------------------------------------
\* Claims about the expand set of the content pane (Spec)
\* ------------------------------------------------------------------------

\* C20: in every reachable state contentExpandedItems is exactly the set of
\* the node ids of currentContent; it is rebuilt by each successful load and
\* keeps nothing of the subtree loaded before.
C20_ExpandedIsContentIds ==
    contentExpandedItems = collectAllIds(currentContent)

\* C20 witness: a load has replaced a subtree by an unrelated one while
\* another fetch has failed or is still in flight.
C20_Witness ==
    /\ lastEvent.type = "loadOk"
    /\ lastEvent.prevRoot # Null
    /\ lastEvent.prevRoot \notin contentExpandedItems
    /\ lastEvent.prevRoot \notin collectAllIds(currentContent)
    /\ Cardinality(contentExpandedItems) = 2
    /\ (lastEvent.overtakenBy # Null \/ lastEvent.afterEarlier # Null)

\* ------------------------------------------------------------------------
\* Claims about the scroll after a load (ScrollSpec)
\* ------------------------------------------------------------------------

\* Every pending scroll timer still has to wait what is left of the delay, and
\* every scrollToElement call made by a timer came ScrollDelayMs or more after
\* the timer was set.
ScrollWaitsForDelay ==
    /\ \A t \in scrollTimers : t.due >= ScrollDelayMs - t.waited
    /\ lastEvent.type \in {"scroll", "scrollMiss"} => lastEvent.target >= ScrollDelayMs

\* A click on an item that is not loaded does not scroll, and sets no timer
\* while its load is pending; a timer is set only by the step that settles a
\* load, for an id a caller of that load asked to scroll to, or by the click
\* itself when its load has settled at once; the scroll position moves only
\* by a click on a loaded item or by a timer; a scroll to an id without a
\* mounted element changes nothing but the timer that fired.
ScrollFrame ==
    /\ (lastEvent'.type = "click" /\ lastEvent'.target # Null) =>
          /\ UNCHANGED scrollTop
          /\ contentLoading' => UNCHANGED scrollTimers
    /\ \A t \in scrollTimers' :
          (t.waited = 0 /\ t \notin scrollTimers) =>
              \/ /\ lastEvent'.type \in {"loadOk", "loadFail"}
                 /\ \E k \in 1..Len(lastEvent'.waiters) :
                       lastEvent'.waiters[k].scrollTo = t.id
              \/ /\ lastEvent'.type = "click"
                 /\ lastEvent'.id = t.id
                 /\ ~contentLoading'
                 /\ CacheKey(documentId, lastEvent'.target) \in requestCache
    /\ scrollTop' # scrollTop =>
          \/ lastEvent'.type = "click" /\ lastEvent'.target = Null
          \/ lastEvent'.type = "scroll"
    /\ lastEvent'.type = "scrollMiss" =>
          UNCHANGED <<scrollTop, documentId, navigationData, navigationExpandedItems,
                      contentVars, mountVars, loadVars, searchVars, referencePopup>>

\* C21: after a navigation click on an item that is not loaded, the scroll to
\* the item is requested only once the load has settled and 150 ms more have
\* passed; a scroll request for an id without a mounted element changes
\* neither the scroll position nor any viewer state.
C21_ScrollAfterLoadAndDelay ==
    []ScrollWaitsForDelay /\ [][ScrollFrame]_vars

\* C21 witness: a timer set by a settled load has fired after the delay for an
\* id that has no element, with the container left where an earlier scroll
\* had put it.
C21_Witness ==
    /\ lastEvent.type = "scrollMiss"
    /\ lastEvent.target >= ScrollDelayMs
    /\ scrollTop # Null
    /\ scrollTop # lastEvent.id

\* ------------------------------------------------------------------------
\* More claims about the search coordinator (SearchSpec)
\* ------------------------------------------------------------------------

\* C22: when the debounce timer fires for a term that is empty after trimming,
\* searchResults is cleared and no backend search request is issued; for any
\* other term the request is issued.
C22_BlankTermClearsResults ==
    [][lastEvent'.type \in {"searchBlank", "searchCall"} =>
          IF TrimEnd(TrimStart(lastEvent'.term)) = <<>>
          THEN /\ lastEvent'.type = "searchBlank"
               /\ searchResults' = <<>>
               /\ searchRequests' = searchRequests
               /\ searchHist'.calls = searchHist.calls
          ELSE /\ lastEvent'.type = "searchCall"
               /\ Len(searchRequests') = Len(searchRequests) + 1]_vars

\* C22 witness: the timer of a term of one blank has fired and cleared
\* results that a search had left.
C22_Witness ==
    /\ lastEvent.type = "searchBlank"
    /\ lastEvent.term = <<" ">>
    /\ lastEvent.results # <<>>
    /\ searchResults = <<>>
    /\ searchRequests = <<>>

\* ------------------------------------------------------------------------
\* Claims about the request cache of getContentItem (Spec)
\* ------------------------------------------------------------------------

\* C23: the request cache holds a key only while the request for that key is
\* in flight; once the request has settled the key is removed, so the next
\* getContentItem call for it issues a new request.
C23_CacheHoldsOnlyInFlight ==
    \A key \in requestCache : PendingFor(contentRequests, key) # {}

\* What does hold of C23: a key is in the cache while its fetch awaits the
\* response.
PendingFetchIsCached ==
    \A i \in 1..Len(contentRequests) :
        contentRequests[i].stage = "sent" => contentRequests[i].key \in requestCache

\* ------------------------------------------------------------------------
\* Claims about contentLoading (Spec)
\* ------------------------------------------------------------------------

\* C24: contentLoading is true in every state in which a content fetch
\* started by loadContentForItem is in flight, also when loads overlap and one
\* of them completes before the others.
C24_LoadingWhileInFlight ==
    contentRequests # <<>> => contentLoading

\* What does hold of C24: contentLoading is true only while a fetch is in
\* flight.
LoadingOnlyWhileInFlight ==
    contentLoading => contentRequests # <<>>

\* ------------------------------------------------------------------------
\* Claims about overlapping searches (SearchSpec)
\* ------------------------------------------------------------------------

\* C25: the response of an earlier search that arrives after the response of
\* a later one never replaces the later results, so that once all search
\* requests have settled searchResults holds the results of the search issued
\* last.
C25_LastIssuedSearchWins ==
    [][lastEvent'.type \in {"searchOk", "searchFallback"} =>
          (searchRequests[lastEvent'.id].overtaken =>
              searchResults' = searchRequests[lastEvent'.id].laterResults)]_vars

\* C25 as the code has it: every search response, overtaken or not, replaces
\* searchResults by its own results; the search that completes last wins.
C25_LastCompletedSearchWins ==
    [][lastEvent'.type \in {"searchOk", "searchFallback"} =>
          /\ searchResults' = lastEvent'.results
          /\ lastEvent'.overtaken = searchRequests[lastEvent'.id].overtaken
          /\ Len(searchRequests') = Len(searchRequests) - 1]_vars

\* C25 witness: all searches have settled, and the last response was that of
\* an overtaken search, which replaced the results of the later one by others.
C25_Witness ==
    /\ lastEvent.type = "searchOk"
    /\ lastEvent.overtaken
    /\ searchRequests = <<>>
    /\ searchResults = lastEvent.results
    /\ lastEvent.replaced # lastEvent.results
    /\ lastEvent.replaced # <<>>

\* ------------------------------------------------------------------------
\* Claims about the selection after a click (Spec)
\* ------------------------------------------------------------------------

\* C26: after a navigation click on an item X that is not loaded, X is the
\* selected item once the load the click started has completed successfully
\* with X still selected before it, also when the content fetched is an
\* ancestor part or section of X.
C26_ClickedItemStaysSelected ==
    [][(/\ lastEvent'.type = "loadOk"
        /\ Len(lastEvent'.waiters) = 1
        /\ lastEvent'.waiters[1].origin = "click"
        /\ selectedItem = lastEvent'.waiters[1].scrollTo) =>
          selectedItem' = lastEvent'.waiters[1].scrollTo]_vars

\* What does hold of C26: the clicked item is selected from the click until
\* the load completes, and the completed load selects the item it fetched.
ClickedThenFetchedSelected ==
    /\ lastEvent.type = "click" => selectedItem = lastEvent.id
    /\ lastEvent.type = "loadOk" => selectedItem = lastEvent.item.id

\* ------------------------------------------------------------------------
\* Claims about the sharing of content requests (Spec)
\* ------------------------------------------------------------------------

\* C27: while a getContentItem request for a document and content id is in
\* flight, a further call with the same document and content id issues no new
\* request and shares the outcome of the first; calls with different content
\* ids never share a request.
C27_OneRequestPerKeyInFlight ==
    /\ \A i, j \in 1..Len(contentRequests) :
          contentRequests[i].key = contentRequests[j].key => i = j
    /\ \A i \in 1..Len(contentRequests) :
          \A k \in 1..Len(contentRequests[i].waiters) :
              contentRequests[i].waiters[k].contentId = contentRequests[i].key[2]

\* What does hold of C27: the calls share a request until its response
\* headers have arrived, and calls with different ids never share one.
OneRequestPerKeyAwaitingHeaders ==
    /\ \A i, j \in 1..Len(contentRequests) :
          (/\ contentRequests[i].key = contentRequests[j].key
           /\ contentRequests[i].stage = "sent"
           /\ contentRequests[j].stage = "sent") => i = j
    /\ \A i \in 1..Len(contentRequests) :
          \A k \in 1..Len(contentRequests[i].waiters) :
              contentRequests[i].waiters[k].contentId = contentRequests[i].key[2]

\* ------------------------------------------------------------------------
\* Claims about the termination of findParentContentId (FindLooseSpec)
\* ------------------------------------------------------------------------

\* C28: findParentContentId terminates for every clicked node and every
\* finite navigationData, whatever parent_id values the nodes carry.
C28_FindParentTerminates ==
    fpPc = "done" => fpResult # Diverges

\* The walk from the item along parent_id comes back to a node it has left,
\* without meeting a part or section.
RECURSIVE ParentCycle(_, _, _)
ParentCycle(nav, current, seen) ==
    /\ current.id # Null
    /\ current.content_type \notin {"part", "section"}
    /\ \/ current.id \in seen
       \/ ParentCycle(nav, findParentInNavigation(nav, current.parent_id),
                      seen \cup {current.id})

\* What does hold of C28: the function terminates unless the parent_id values
\* lead the walk round a cycle, and it does so for an absent parent_id.
TerminatesUnlessCycle ==
    fpPc = "done" =>
        /\ (fpResult = Diverges) =
              (/\ fpItem.content_type \notin {"division", "part", "section"}
               /\ ParentCycle(fpNav, fpItem, {}))
        /\ fpItem.parent_id \in {Null, 9} => fpResult = fpItem.id

\* ------------------------------------------------------------------------
\* Claims about the end of the loading state (LiveSpec)
\* ------------------------------------------------------------------------

\* C29: on every mount the viewer eventually leaves the loading state, for
\* every value of the documentId prop including an absent one: loading is
\* false once every fetch of the mount effect has settled.
C29_LoadingEnds ==
    <>(mountPc = "done" /\ ~loading)

\* What does hold of C29: with a documentId the loading state ends, and it has
\* ended once the fetches of the mount effect have settled.
LoadingEndsWithDocument ==
    /\ documentId # NoDocument => <>(mountPc = "done" /\ ~loading)
    /\ [](documentId # NoDocument /\ mountPc = "done" => ~loading)

\* The placements of a forest: for every node of it, its id, whether it is
\* one of the given top-level nodes, and the id of the node whose children
\* list holds it.
RECURSIVE Placements(_, _, _)
Placements(nodes, top, under) ==
    UNION {{[id |-> nodes[k].id, top |-> top, under |-> under]}
           \cup Placements(nodes[k].children, FALSE, nodes[k].id) :
           k \in 1..Len(nodes)}

\* A list of nodes is ascending by sequence_order, and so is the children
\* list of every node below it.
RECURSIVE SortedForest(_)
SortedForest(nodes) ==
    /\ \A k \in 1..(Len(nodes) - 1) :
           nodes[k].sequence_order <= nodes[k + 1].sequence_order
    /\ \A k \in 1..Len(nodes) : SortedForest(nodes[k].children)

\* Where the documented rule places an item of the flat list.
DocumentedPlace(flat, item) ==
    IF item.parent_id = NoParent \/ ~MapHas(flat, item.parent_id)
    THEN [id |-> item.id, top |-> TRUE, under |-> NoParent]
    ELSE [id |-> item.id, top |-> FALSE, under |-> item.parent_id]

\* C30: in the forest buildHierarchy returns for a flat list, the root list
\* and every children list are ascending by sequence_order, and every item of
\* the list is the child of the node whose id is its parent_id, or a root
\* when its parent_id is null or names no item of the list.
C30_SortedAndPlacedByParent ==
    bhPc = "done" =>
        /\ SortedForest(hierarchy)
        /\ \A k \in 1..Len(flatData) :
               DocumentedPlace(flatData, flatData[k])
                   \in Placements(hierarchy, TRUE, NoParent)

\* Following parent_id from the item of the given id never reaches a root:
\* the item is on a cycle of parents or below one.
RECURSIVE BelowCycle(_, _, _)
BelowCycle(flat, id, fuel) ==
    IF ~HasParent(flat, MapGet(flat, id)) THEN FALSE
    ELSE IF fuel = 0 THEN TRUE
    ELSE BelowCycle(flat, MapGet(flat, id).parent_id, fuel - 1)

\* What buildHierarchy does keep: every list of the forest is sorted; an item
\* whose parent_id is 0 is a root, also when an item of id 0 is in the list; an
\* item on a cycle of parents or below one is nowhere in the forest; every
\* other item is where the documented rule places it.
SortedAndPlacedUnlessZeroOrCycle ==
    bhPc = "done" =>
        /\ SortedForest(hierarchy)
        /\ \A k \in 1..Len(flatData) :
               LET item == flatData[k]
                   places == {p \in Placements(hierarchy, TRUE, NoParent) :
                                 p.id = item.id}
               IN  IF BelowCycle(flatData, item.id, Len(flatData))
                   THEN places = {}
                   ELSE IF item.parent_id = 0
                   THEN places = {[id |-> item.id, top |-> TRUE, under |-> NoParent]}
                   ELSE places = {DocumentedPlace(flatData, item)}

\* A self-parented item has been dropped from the forest.
SelfParentDropped ==
    /\ bhPc = "done"
    /\ flatData = <<Item(1, 1, 1)>>
    /\ hierarchy = <<>>

\* An item whose parent_id is 0 is a root next to the item of id 0.
ZeroParentIsRoot ==
    /\ bhPc = "done"
    /\ flatData = <<Item(0, NoParent, 1), Item(1, 0, 1)>>
    /\ Len(hierarchy) = 2
====
